---- MODULE Spec2Model ----
(***************************************************************************)
(* Model of the web serial monitor's App component: the session            *)
(* controller (connect / disconnect over serial, WebSocket and BLE), the   *)
(* WebSocket reconnect supervisor, the bounded log, the send queue and     *)
(* the chunked file transfer.                                              *)
(*                                                                         *)
(* React state (useState) is modelled by a variable of the same name that  *)
(* holds the value of the latest render; a handler that is called from the *)
(* UI reads that value, a handler that is suspended on an await keeps the  *)
(* value it captured when it was called.  Refs (useRef) are variables      *)
(* named after the ref.                                                    *)
(*                                                                         *)
(* The per-second line-frequency counter that addLog feeds                 *)
(* (newlineCountRef) is display-only and is not part of the model.         *)
(***************************************************************************)
EXTENDS Integers, Sequences, FiniteSets, Bags, TLC

(***************************************************************************)
(* Bounds of the model                                                     *)
(***************************************************************************)
\* appends explored on top of a seeded log (SpecLog)
MaxAppends == 3
\* largest payload (bytes) of one appended entry (SpecLog)
MaxPayload == 3
\* largest byte ceiling tried (SpecLog); the ceilings are this and its half
MaxCeiling == 4
\* WebSocket objects created in one run (Spec)
MaxSockets == 3
\* entries the log holds when the user clears it before going on
MaxSessionLog == 1
\* handler calls suspended on an await at the same time (Spec)
MaxProcs == 2
\* sendData and handleFileSend calls accepted in one run (SpecSend)
MaxSends == 3
\* bytes of the largest file sent (SpecFile)
MaxFileLen == 3
\* largest chunk size configured (SpecFile)
MaxChunk == 3
MaxDrops == 2
\* entries of the largest log exported (SpecExport)
MaxExportLog == 3

\* the writes of file transfers that are followed
MaxWrites == 4

(***************************************************************************)
(* Program constants                                                       *)
(***************************************************************************)
\* addLog: "if (updatedLogs.length > 1000)"
MaxLogCount == 1000
\* addLog: "updatedLogs.slice(-500)"
KeepLogCount == 500
\* addLog: "tempLogs.length > 10"
MinLogCount == 10

LogTypes == {"rx", "tx", "info", "error"}

CommModes == {"serial", "websocket", "bluetooth"}

VARIABLES
    \* ---- LogBuffer
    logs,               \* useState<LogEntry[]>
    maxBufferSizeRef,   \* useRef(maxBufferSize), the byte ceiling addLog reads
    lastAppend,         \* observation: input and argument of the last addLog of SpecLog
    appends,            \* observation: number of addLog calls made in SpecLog
    exported,           \* what exportLogs('txt'), exportLogs('bin') and copyLogs last
                        \* put in the Blob / on the clipboard
    rxDropped,          \* observation: chunks the inbound handlers dropped while
                        \* paused, counted up to MaxDrops; -1 when not counted
    \* ---- session state
    commMode,           \* useState<CommMode>
    isConnected,        \* useState(false)
    isPaused,           \* useState(false); isPausedRef follows it
    isReconnecting,     \* useState(false)
    \* ---- WebSocket transport and reconnect supervisor
    wsRef,              \* useRef<WebSocket | null>: a socket id, 0 for null
    shouldReconnectRef, \* useRef(true)
    reconnectTimerRef,  \* useRef<Timeout | null>: a timer handle, 0 for null
    ws,                 \* readyState of every WebSocket object created so far
    timers,             \* handles of the setTimeout callbacks still pending
    \* ---- serial transport
    port,               \* useState<SerialPort | null>: 1 for the port object, 0 for null
    portOpen,           \* the SerialPort object is open
    readerRef,          \* useRef<ReadableStreamDefaultReader | null>: 1 / 0
    keepReadingRef,     \* useRef(true)
    readLoop,           \* readLoop(): "none", or "read" while awaiting reader.read()
    \* ---- BLE transport
    bluetoothDeviceRef,         \* useRef<BluetoothDevice | null>: 1 / 0
    bluetoothCharacteristicRef, \* useRef<...Characteristic | null>: 1 / 0
    gattConnected,      \* device.gatt.connected
    notifying,          \* characteristicvaluechanged listeners that are installed
    \* ---- handler calls suspended on an await
    procs,              \* bag of [op, pc, port]: the continuations not yet run
    \* ---- SendQueue
    sendQueueRef,       \* useRef<{data, text, mode}[]>; n, busy are observations
    isSendingRef,       \* useRef(false)
    drains,             \* bag of processSendQueue loops suspended on a write
    writerLock,         \* who holds the lock of port.writable: "free", "drain", "file"
    \* ---- Transfer Engine
    xfer,               \* the handleFileSend call in progress (Sender allows one)
    \* ---- observations of the outbound path
    wire,               \* the writes issued to the transports, in order
    enqLog,             \* the payloads sendData enqueued, in order
    fileRuns,           \* handleFileSend calls made so far
    \* ---- observations of the reconnect supervisor
    timerSrc,           \* timerSrc[h]: the socket whose onclose armed timer h
    fireCount,          \* fireCount[h]: connect() calls made by timer h
    cancelled,          \* handles that a disconnect cleared before they fired
    closedWith,         \* per socket: how its close event was handled
    userStopped,        \* a WebSocket disconnect() ran and no user connect since
    strayAttempt        \* a timer called connect() while userStopped

logVars == <<logs, maxBufferSizeRef, lastAppend, appends>>
sessVars == <<commMode, isConnected, isPaused, isReconnecting>>
wsVars == <<wsRef, shouldReconnectRef, reconnectTimerRef, ws, timers>>
serVars == <<port, portOpen, readerRef, keepReadingRef, readLoop>>
bleVars == <<bluetoothDeviceRef, bluetoothCharacteristicRef, gattConnected, notifying>>
sendVars == <<sendQueueRef, isSendingRef, drains, writerLock, xfer, wire, enqLog, fileRuns>>
obsVars == <<timerSrc, fireCount, cancelled, closedWith, userStopped, strayAttempt>>

vars == <<logs, maxBufferSizeRef, lastAppend, appends, rxDropped, exported,
          commMode, isConnected, isPaused, isReconnecting,
          wsRef, shouldReconnectRef, reconnectTimerRef, ws, timers,
          port, portOpen, readerRef, keepReadingRef, readLoop,
          bluetoothDeviceRef, bluetoothCharacteristicRef, gattConnected, notifying,
          procs,
          sendQueueRef, isSendingRef, drains, writerLock, xfer, wire, enqLog, fileRuns,
          timerSrc, fireCount, cancelled, closedWith, userStopped, strayAttempt>>

(***************************************************************************)
(* LogBuffer                                                               *)
(***************************************************************************)
\* a payload of n bytes
Bytes(n) == [i \in 1..n |-> 0]

RECURSIVE SumBytes(_, _, _)
\* sum of data.length over s[lo..hi]
SumBytes(s, lo, hi) ==
    IF lo > hi THEN 0
    ELSE IF lo = hi THEN Len(s[lo].data)
    ELSE LET mid == (lo + hi) \div 2
         IN SumBytes(s, lo, mid) + SumBytes(s, mid + 1, hi)

\* calculateBufferSize: logs.reduce((total, log) => total + log.data.length, 0)
calculateBufferSize(s) == SumBytes(s, 1, Len(s))

\* id: Math.random().toString(36).substr(2, 9), a value no entry of the log has
FreshId(prev) == IF prev = <<>> THEN 1 ELSE prev[Len(prev)].id + 1

\* the entry addLog builds
NewLog(id, type, data, text) ==
    [id |-> id, type |-> type, data |-> data, text |-> text,
     byteCount |-> Len(data)]

\* a slice from the wrong end: slice(0, n)
SliceFirst(s, n) == SubSeq(s, 1, IF Len(s) <= n THEN Len(s) ELSE n)

\* updatedLogs.slice(-500)
SliceLast(s, n) ==
    IF Len(s) <= n THEN s ELSE SubSeq(s, Len(s) - n + 1, Len(s))

\* the loop condition with the floor compared by >= instead of >
LoopConditionFloorIncluded(s, k, max) ==
    /\ SumBytes(s, k + 1, Len(s)) > max
    /\ Len(s) - k >= MinLogCount

\* the condition of the eviction loop after k calls of tempLogs.shift():
\*   calculateBufferSize(tempLogs) > max && tempLogs.length > 10
LoopCondition(s, k, max) ==
    /\ SumBytes(s, k + 1, Len(s)) > max
    /\ Len(s) - k > MinLogCount

RECURSIVE LeastStop(_, _, _, _)
\* The while loop shifts until its condition is false for the first time.
\* Byte counts are not negative, so the condition, once false, stays false
\* as k grows: the first k in lo..hi at which it is false is found by
\* bisection (a loop of up to 1000 iterations is too deep to unfold).
LeastStop(s, lo, hi, max) ==
    IF lo >= hi THEN lo
    ELSE LET mid == (lo + hi) \div 2
         IN IF LoopCondition(s, mid, max)
            THEN LeastStop(s, mid + 1, hi, max)
            ELSE LeastStop(s, lo, mid, max)

\* an eviction loop that removes from the newest end: pop() for shift()
PopWhileOver(tempLogs, max) ==
    SubSeq(tempLogs, 1, Len(tempLogs) - LeastStop(tempLogs, 0, Len(tempLogs), max))

\* tempLogs after
\*   while (calculateBufferSize(tempLogs) > max && tempLogs.length > 10) tempLogs.shift()
ShiftWhileOver(tempLogs, max) ==
    SubSeq(tempLogs, LeastStop(tempLogs, 0, Len(tempLogs), max) + 1, Len(tempLogs))

\* the state updater without its count branch
AddLogBytesOnly(prev, newLog, max) ==
    LET updatedLogs == Append(prev, newLog)
    IN IF calculateBufferSize(updatedLogs) > max
       THEN SubSeq(updatedLogs, LeastStop(updatedLogs, 0, Len(updatedLogs), max) + 1,
                   Len(updatedLogs))
       ELSE updatedLogs

\* the state updater of addLog: the next value of logs
AddLog(prev, newLog, max) ==
    LET updatedLogs == Append(prev, newLog)
    IN IF Len(updatedLogs) > MaxLogCount
       THEN SliceLast(updatedLogs, KeepLogCount)
       ELSE IF calculateBufferSize(updatedLogs) > max
            THEN ShiftWhileOver(updatedLogs, max)
            ELSE updatedLogs

\* the text field of an entry: a message and the bytes it shows
Text(msg, arg) == [msg |-> msg, arg |-> arg]

\* addLog(type, data, text) applied to the log held in state
addLog(prev, type, data, text) ==
    AddLog(prev, NewLog(FreshId(prev), type, data, text), maxBufferSizeRef)

(***************************************************************************)
(* exportLogs and copyLogs                                                 *)
(***************************************************************************)
\* the outputs: the Blob of exportLogs('txt'), of exportLogs('bin'), and the
\* text copyLogs writes to the clipboard
ExportKinds == {"txt", "bin", "copy"}

NothingExported == [k \in ExportKinds |-> [done |-> FALSE, content |-> <<>>]]

\* the characters of a text: a decoded payload has one per byte, a message
\* is taken as one
Chars(t) ==
    IF t.msg = "data"
    THEN [i \in 1..Len(t.arg) |-> Text("data", <<t.arg[i]>>)]
    ELSE <<t>>

\* a filter that keeps every entry
FilterNone(l) == l

\* logs.filter(l => l.type === 'rx' || l.type === 'tx')
FilterRxTx(l) == SelectSeq(l, LAMBDA e : e.type = "rx" \/ e.type = "tx")

\* .map(l => l.text)
MapText(l) == [i \in 1..Len(l) |-> l[i].text]

RECURSIVE Join(_)
\* .join('')
Join(texts) ==
    IF texts = <<>> THEN <<>>
    ELSE Chars(Head(texts)) \o Join(Tail(texts))

\* const content = logs.filter(...).map(l => l.text).join('')
Content(l) == Join(MapText(FilterRxTx(l)))

(***************************************************************************)
(* Initial values of the component (the useState / useRef initialisers)    *)
(***************************************************************************)
InitSession ==
    /\ commMode = "serial"
    /\ isConnected = FALSE
    /\ isPaused = FALSE
    /\ isReconnecting = FALSE

InitWs ==
    /\ wsRef = 0
    /\ shouldReconnectRef = TRUE
    /\ reconnectTimerRef = 0
    /\ ws = [s \in 1..MaxSockets |-> "none"]
    /\ timers = {}

InitSerial ==
    /\ port = 0
    /\ portOpen = FALSE
    /\ readerRef = 0
    /\ keepReadingRef = TRUE
    /\ readLoop = "none"

InitBle ==
    /\ bluetoothDeviceRef = 0
    /\ bluetoothCharacteristicRef = 0
    /\ gattConnected = FALSE
    /\ notifying = 0

InitProcs == procs = EmptyBag

\* no handleFileSend call in progress
IdleXfer ==
    [pc |-> "idle", via |-> "none", data |-> <<>>, sent |-> 0, chunkSize |-> 0,
     throttleMs |-> 0, paused |-> FALSE, progress |-> 0, run |-> 0]

InitSend ==
    /\ sendQueueRef = <<>>
    /\ isSendingRef = FALSE
    /\ drains = EmptyBag
    /\ writerLock = "free"
    /\ xfer = IdleXfer
    /\ wire = <<>>
    /\ enqLog = <<>>
    /\ fileRuns = 0

InitObs ==
    /\ timerSrc = <<>>
    /\ fireCount = <<>>
    /\ cancelled = {}
    /\ closedWith = [s \in 1..MaxSockets |-> "none"]
    /\ userStopped = FALSE
    /\ strayAttempt = FALSE

(***************************************************************************)
(* SpecLog: addLog and clear applied to logs of every size that matters.   *)
(* A seed is the log left by n appends that trigger no eviction: k         *)
(* one-byte rx/tx entries, k not above the ceiling, followed by n - k      *)
(* info/error entries without payload.                                     *)
(***************************************************************************)
SeedEntry(i, n, k) ==
    IF i <= k
    THEN NewLog(i, IF i % 2 = 1 THEN "rx" ELSE "tx", Bytes(1), Text("data", Bytes(1)))
    ELSE NewLog(i, IF i % 2 = 1 THEN "info" ELSE "error", <<>>, Text("note", <<>>))

Seed(n, k) == [i \in 1..n |-> SeedEntry(i, n, k)]

SeedLens == {0, MinLogCount - 1, MinLogCount, MaxLogCount - 1, MaxLogCount}

Ceilings == {MaxCeiling \div 2, MaxCeiling}

\* the (type, payload) pairs addLog is called with
AppendInputs ==
    ({"rx", "tx"} \X {Bytes(1), Bytes(MaxPayload)})
        \cup ({"info", "error"} \X {<<>>})

InitLog ==
    /\ maxBufferSizeRef \in Ceilings
    /\ \E n \in SeedLens : \E k \in {0, maxBufferSizeRef} :
          /\ k <= n
          /\ logs = Seed(n, k)
    /\ lastAppend = [done |-> FALSE, prev |-> <<>>, entry |-> NewLog(0, "info", <<>>, Text("note", <<>>))]
    /\ appends = 0
    /\ rxDropped = -1
    /\ exported = NothingExported
    /\ InitSession /\ InitWs /\ InitSerial /\ InitBle /\ InitProcs /\ InitSend /\ InitObs

\* one call of addLog
LogAppend ==
    /\ appends < MaxAppends
    /\ \E in \in AppendInputs :
         LET type == in[1]
             data == in[2]
             text == IF data = <<>> THEN Text("note", <<>>) ELSE Text("data", data)
         IN /\ logs' = addLog(logs, type, data, text)
            /\ lastAppend' = [done |-> TRUE, prev |-> logs,
                               entry |-> NewLog(FreshId(logs), type, data, text)]
    /\ appends' = appends + 1
    /\ UNCHANGED <<maxBufferSizeRef, rxDropped, exported, sessVars, wsVars, serVars, bleVars, procs, sendVars, obsVars>>

\* the clear button: setLogs([])
LogClear ==
    /\ logs # <<>>
    /\ logs' = <<>>
    /\ lastAppend' = [lastAppend EXCEPT !.done = FALSE]
    /\ UNCHANGED <<maxBufferSizeRef, appends, rxDropped, exported, sessVars, wsVars, serVars, bleVars, procs, sendVars, obsVars>>

NextLog == LogAppend \/ LogClear

SpecLog == InitLog /\ [][NextLog]_vars


(***************************************************************************)
(* Spec: the session controller and the reconnect supervisor               *)
(***************************************************************************)
\* what no handler of the session writes
logFix == <<maxBufferSizeRef, lastAppend, appends, rxDropped, exported>>

\* the user lets a handler log while the log holds fewer than MaxSessionLog
\* entries, and clears it before going on otherwise
CanLog == Len(logs) < MaxSessionLog

\* a step that leaves the log as newLogs either logs nothing or has room
RoomFor(newLogs) == newLogs = logs \/ CanLog

\* addLog('info' | 'error', new Uint8Array(), message)
Note(prev, type, msg) == addLog(prev, type, <<>>, Text(msg, <<>>))

\* the chunk a transport delivers
RxChunk == <<1>>

\* addLog('rx', data, decoderRef.current.decode(data))
Rx(prev, data) == addLog(prev, "rx", data, Text("data", data))

\* an inbound handler that logs whatever isPausedRef says
OnChunkIgnoringPause ==
    /\ CanLog
    /\ logs' = Rx(logs, RxChunk)
    /\ rxDropped' = IF isPaused /\ rxDropped >= 0 /\ rxDropped < MaxDrops
                    THEN rxDropped + 1
                    ELSE rxDropped
    /\ UNCHANGED <<maxBufferSizeRef, lastAppend, appends, exported>>

\* what each inbound handler does with a chunk: "if (isPausedRef.current)
\* return" (serial: "if (value && !isPausedRef.current)"), otherwise addLog.
\* isPausedRef is set from isPaused by an effect of the render that follows
\* setIsPaused, before any later event is handled.
OnChunk ==
    /\ IF isPaused
       THEN logs' = logs
       ELSE /\ CanLog
            /\ logs' = Rx(logs, RxChunk)
    /\ rxDropped' = IF isPaused /\ rxDropped >= 0 /\ rxDropped < MaxDrops
                    THEN rxDropped + 1
                    ELSE rxDropped
    /\ UNCHANGED <<maxBufferSizeRef, lastAppend, appends, exported>>

\* a handler call suspended on an await
Proc(op, pc, p) == [op |-> op, pc |-> pc, port |-> p]

Suspend(bag, op, pc, p) == bag (+) SetToBag({Proc(op, pc, p)})

Resume(bag, op, pc, p) == bag (-) SetToBag({Proc(op, pc, p)})

CanSuspend == BagCardinality(procs) < MaxProcs

(* ---------------------------- WebSocket -------------------------------- *)
FreeSockets == {s \in 1..MaxSockets : ws[s] = "none"}

\* the object "new WebSocket(wsUrl)" returns
NewSocket == CHOOSE s \in FreeSockets : \A t \in FreeSockets : s <= t

\* what the user may have typed as server address before clicking connect
Urls == {"empty", "invalid", "valid"}

\* connect(), WebSocket branch, from its "new WebSocket(wsUrl)" on
WsConnectCreate ==
    /\ FreeSockets # {}
    /\ ws' = [ws EXCEPT ![NewSocket] = "connecting"]
    /\ wsRef' = NewSocket
    /\ shouldReconnectRef' = TRUE

\* connect(), WebSocket branch, called by the connect button
WsUserConnect(url) ==
    /\ commMode = "websocket"
    /\ CASE url = "empty" ->
              \* alert(...); return
              UNCHANGED <<logs, wsVars>>
         [] url = "invalid" ->
              \* new WebSocket throws; catch: addLog('error', ...)
              /\ CanLog
              /\ logs' = Note(logs, "error", "ws_connect_failed")
              /\ UNCHANGED wsVars
         [] OTHER ->
              /\ WsConnectCreate
              /\ UNCHANGED <<logs, reconnectTimerRef, timers>>
    /\ UNCHANGED <<logFix, sessVars, serVars, bleVars, procs, sendVars>>

\* a timer callback that does not call connect()
TimerFireGivesUp(h) ==
    /\ h \in timers
    /\ timers' = timers \ {h}
    /\ UNCHANGED <<logs, logFix, sessVars, wsRef, shouldReconnectRef, reconnectTimerRef, ws,
                   serVars, bleVars, procs, sendVars, obsVars>>

\* TimerFire with a timer that re-arms itself (setInterval for setTimeout)
TimerFireRepeating(h) ==
    /\ h \in timers
    /\ timers' = timers
    /\ WsConnectCreate
    /\ fireCount' = [fireCount EXCEPT ![h] = @ + 1]
    /\ strayAttempt' = (strayAttempt \/ userStopped)
    /\ UNCHANGED <<logs, logFix, sessVars, reconnectTimerRef, serVars, bleVars, procs,
                   sendVars, timerSrc, cancelled, closedWith, userStopped>>

\* the callback of setTimeout(() => { connect(); }, 1000): connect() of the
\* render that created the closed socket, so its WebSocket branch with the
\* address that socket was created with
TimerFire(h) ==
    /\ h \in timers
    /\ timers' = timers \ {h}
    /\ WsConnectCreate
    /\ fireCount' = [fireCount EXCEPT ![h] = @ + 1]
    /\ strayAttempt' = (strayAttempt \/ userStopped)
    /\ UNCHANGED <<logs, logFix, sessVars, reconnectTimerRef, serVars, bleVars, procs,
                   sendVars, timerSrc, cancelled, closedWith, userStopped>>

\* an onclose that answers a failed attempt with the next attempt at once,
\* on the same socket slot, instead of arming the timer
WsCloseRetryAtOnce(s, failed) ==
    /\ ws[s] = "connecting"
    /\ CanLog
    /\ logs' = Note(logs, "info", "ws_closed_retry_in_1s")
    /\ UNCHANGED <<logFix, sessVars, wsVars, serVars, bleVars, procs, sendVars, obsVars>>

\* an onopen that appends nothing
WsOpenSilent(s) ==
    /\ ws[s] = "connecting"
    /\ ws' = [ws EXCEPT ![s] = "open"]
    /\ isConnected' = TRUE
    /\ isReconnecting' = FALSE
    /\ UNCHANGED <<logs, logFix, commMode, isPaused, wsRef, shouldReconnectRef,
                   reconnectTimerRef, timers, serVars, bleVars, procs, sendVars, obsVars>>

\* ws.onopen
WsOpen(s) ==
    /\ ws[s] = "connecting"
    /\ CanLog
    /\ ws' = [ws EXCEPT ![s] = "open"]
    /\ isConnected' = TRUE
    /\ isReconnecting' = FALSE
    /\ logs' = Note(logs, "info", "ws_connected")
    /\ UNCHANGED <<logFix, commMode, isPaused, wsRef, shouldReconnectRef,
                   reconnectTimerRef, timers, serVars, bleVars, procs, sendVars, obsVars>>

\* ws.onmessage; the browser drops a message that arrives when readyState
\* is not OPEN, so a socket on which close() was called delivers none
WsMessage(s) ==
    /\ ws[s] = "open"
    /\ OnChunk
    /\ UNCHANGED <<sessVars, wsVars, serVars, bleVars, procs, sendVars, obsVars>>

\* ws.onclose, preceded by ws.onerror when the socket failed
WsClose(s, failed) ==
    /\ ws[s] \in {"connecting", "open", "closing"}
    /\ failed => ws[s] # "closing"
    /\ CanLog
    /\ ws' = [ws EXCEPT ![s] = "closed"]
    /\ isConnected' = FALSE
    /\ isPaused' = FALSE
    /\ wsRef' = 0
    /\ LET afterError == IF failed THEN Note(logs, "error", "ws_error") ELSE logs
       IN IF shouldReconnectRef
          THEN \* the commMode of the closure is the WebSocket mode
               /\ isReconnecting' = TRUE
               /\ logs' = Note(afterError, "info", "ws_closed_retry_in_1s")
               /\ reconnectTimerRef' = Len(timerSrc) + 1
               /\ timers' = timers \cup {Len(timerSrc) + 1}
               /\ timerSrc' = Append(timerSrc, s)
               /\ fireCount' = Append(fireCount, 0)
               /\ closedWith' = [closedWith EXCEPT ![s] =
                                   IF ws[s] = "closing" THEN "retry_after_close" ELSE "retry"]
          ELSE /\ isReconnecting' = FALSE
               /\ logs' = Note(afterError, "info", "ws_connection_closed")
               /\ closedWith' = [closedWith EXCEPT ![s] = "final"]
               /\ UNCHANGED <<reconnectTimerRef, timers, timerSrc, fireCount>>
    /\ UNCHANGED <<logFix, commMode, shouldReconnectRef, serVars, bleVars, procs,
                   sendVars, cancelled, userStopped, strayAttempt>>

\* disconnect(), WebSocket branch
WsDisconnect ==
    /\ commMode = "websocket"
    /\ CanLog
    /\ shouldReconnectRef' = FALSE
    /\ isReconnecting' = FALSE
    /\ timers' = timers \ {reconnectTimerRef}
    /\ cancelled' = cancelled \cup (timers \cap {reconnectTimerRef})
    /\ reconnectTimerRef' = 0
    /\ ws' = IF wsRef # 0 /\ ws[wsRef] \in {"connecting", "open"}
              THEN [ws EXCEPT ![wsRef] = "closing"]
              ELSE ws
    /\ wsRef' = 0
    /\ isConnected' = FALSE
    /\ isPaused' = FALSE
    /\ logs' = Note(logs, "info", "ws_closed_by_user")
    /\ userStopped' = TRUE
    /\ UNCHANGED <<logFix, commMode, serVars, bleVars, procs,
                   sendVars, timerSrc, fireCount, closedWith, strayAttempt>>

(* ------------------------------ serial --------------------------------- *)
\* the end of disconnect(), serial branch:
\* setIsConnected(false); setIsPaused(false); addLog('info', ..., closed)
SerialDisconnectEnd ==
    /\ isConnected' = FALSE
    /\ isPaused' = FALSE
    /\ logs' = Note(logs, "info", "serial_closed")

\* connect(), serial branch, up to "await selectedPort.open(...)"; the port
\* chooser is modal, so the user's answer is part of the step
SerialUserConnect(pick) ==
    /\ commMode = "serial"
    /\ IF pick = "cancel"
       THEN \* requestPort() rejects; catch: addLog('error', ...)
            /\ CanLog
            /\ logs' = Note(logs, "error", "serial_connect_failed")
            /\ UNCHANGED procs
       ELSE /\ CanSuspend
            /\ procs' = Suspend(procs, "connect", "open", 0)
            /\ UNCHANGED logs
    /\ UNCHANGED <<logFix, sessVars, wsVars, serVars, bleVars, sendVars>>

\* connect(), serial branch, after "await selectedPort.open(...)", with the
\* first pass of readLoop up to its "await reader.read()"
SerialOpenSettled(ok) ==
    /\ BagIn(Proc("connect", "open", 0), procs)
    /\ ok => ~portOpen
    /\ CanLog
    /\ procs' = Resume(procs, "connect", "open", 0)
    /\ IF ok
       THEN /\ portOpen' = TRUE
            /\ port' = 1
            /\ isConnected' = TRUE
            /\ keepReadingRef' = TRUE
            /\ logs' = Note(logs, "info", "serial_connected")
            /\ readerRef' = 1
            /\ readLoop' = "read"
       ELSE /\ logs' = Note(logs, "error", "serial_connect_failed")
            /\ UNCHANGED <<serVars, isConnected>>
    /\ UNCHANGED <<logFix, commMode, isPaused, isReconnecting, wsVars, bleVars, sendVars, obsVars>>

\* readLoop: reader.read() resolves with a chunk
SerialData ==
    /\ readLoop = "read"
    /\ OnChunk
    /\ UNCHANGED <<sessVars, wsVars, serVars, bleVars, procs, sendVars, obsVars>>

\* disconnect(), serial branch, up to its first await
SerialDisconnect ==
    /\ commMode = "serial"
    /\ keepReadingRef' = FALSE
    /\ IF readerRef # 0
       THEN \* await readerRef.current.cancel(): the pending read resolves
            \* with done, readLoop releases the lock and leaves its loop
            /\ CanSuspend
            /\ procs' = Suspend(procs, "disconnect", "cancel", port)
            /\ readLoop' = "none"
            /\ UNCHANGED <<logs, isConnected, isPaused, port, portOpen, readerRef>>
       ELSE IF port # 0
            THEN \* await port.close()
                 /\ CanSuspend
                 /\ procs' = Suspend(procs, "disconnect", "close", port)
                 /\ UNCHANGED <<logs, isConnected, isPaused, port, portOpen, readerRef, readLoop>>
            ELSE /\ CanLog
                 /\ SerialDisconnectEnd
                 /\ UNCHANGED <<procs, port, portOpen, readerRef, readLoop>>
    /\ UNCHANGED <<logFix, commMode, isReconnecting, wsVars, bleVars, sendVars, obsVars>>

\* disconnect(), serial branch, after "await readerRef.current.cancel()"
SerialCancelSettled(p) ==
    /\ BagIn(Proc("disconnect", "cancel", p), procs)
    /\ readerRef' = 0
    /\ IF p # 0
       THEN /\ procs' = Suspend(Resume(procs, "disconnect", "cancel", p), "disconnect", "close", p)
            /\ UNCHANGED <<logs, isConnected, isPaused>>
       ELSE /\ CanLog
            /\ procs' = Resume(procs, "disconnect", "cancel", p)
            /\ SerialDisconnectEnd
    /\ UNCHANGED <<logFix, commMode, isReconnecting, wsVars, port, portOpen,
                   keepReadingRef, readLoop, bleVars, sendVars, obsVars>>

\* disconnect(), serial branch, after "try { await port.close(); } catch (e) {}"
SerialCloseSettled(p) ==
    /\ BagIn(Proc("disconnect", "close", p), procs)
    /\ CanLog
    /\ procs' = Resume(procs, "disconnect", "close", p)
    /\ portOpen' = FALSE
    /\ port' = 0
    /\ SerialDisconnectEnd
    /\ UNCHANGED <<logFix, commMode, isReconnecting, wsVars, readerRef,
                   keepReadingRef, readLoop, bleVars, sendVars, obsVars>>

(* -------------------------------- BLE ---------------------------------- *)
BleSteps == <<"gattConnect", "getPrimaryService", "getCharacteristic", "startNotifications">>

\* connect(), Bluetooth branch, up to "await device.gatt.connect()"; the
\* device chooser is modal, so the user's answer is part of the step
BleUserConnect(pick) ==
    /\ commMode = "bluetooth"
    /\ CanLog
    /\ IF pick = "cancel"
       THEN \* requestDevice() rejects; catch: addLog('error', ...)
            /\ logs' = Note(logs, "error", "ble_connect_failed")
            /\ UNCHANGED procs
       ELSE /\ CanSuspend
            /\ logs' = Note(logs, "info", "ble_connecting_device")
            /\ procs' = Suspend(procs, "connect", BleSteps[1], 0)
    /\ UNCHANGED <<logFix, sessVars, wsVars, serVars, bleVars, sendVars>>

\* connect(), Bluetooth branch, from the await numbered i to the next one
BleStepSettled(i, ok) ==
    /\ BagIn(Proc("connect", BleSteps[i], 0), procs)
    /\ (ok /\ i > 1) => gattConnected
    /\ CanLog
    /\ IF ~ok
       THEN \* catch: addLog('error', ...)
            /\ procs' = Resume(procs, "connect", BleSteps[i], 0)
            /\ logs' = Note(logs, "error", "ble_connect_failed")
            /\ UNCHANGED <<bleVars, isConnected>>
       ELSE CASE i = 1 ->
                   /\ gattConnected' = TRUE
                   /\ logs' = Note(logs, "info", "gatt_connected")
                   /\ procs' = Suspend(Resume(procs, "connect", BleSteps[1], 0), "connect", BleSteps[2], 0)
                   /\ UNCHANGED <<bluetoothDeviceRef, bluetoothCharacteristicRef, notifying, isConnected>>
              [] i = 2 ->
                   /\ logs' = Note(logs, "info", "ble_service_found")
                   /\ procs' = Suspend(Resume(procs, "connect", BleSteps[2], 0), "connect", BleSteps[3], 0)
                   /\ UNCHANGED <<bleVars, isConnected>>
              [] i = 3 ->
                   /\ logs' = Note(logs, "info", "ble_characteristic_found")
                   /\ bluetoothDeviceRef' = 1
                   /\ bluetoothCharacteristicRef' = 1
                   /\ procs' = Suspend(Resume(procs, "connect", BleSteps[3], 0), "connect", BleSteps[4], 0)
                   /\ UNCHANGED <<gattConnected, notifying, isConnected>>
              [] OTHER ->
                   /\ logs' = Note(Note(logs, "info", "ble_notifications_on"), "info", "ble_connected")
                   /\ notifying' = 1
                   /\ isConnected' = TRUE
                   /\ procs' = Resume(procs, "connect", BleSteps[4], 0)
                   /\ UNCHANGED <<bluetoothDeviceRef, bluetoothCharacteristicRef, gattConnected>>
    /\ UNCHANGED <<logFix, commMode, isPaused, isReconnecting, wsVars, serVars, sendVars, obsVars>>

\* the characteristicvaluechanged listener
BleNotify ==
    /\ notifying = 1 /\ gattConnected
    /\ OnChunk
    /\ UNCHANGED <<sessVars, wsVars, serVars, bleVars, procs, sendVars, obsVars>>

\* the device drops the link; the gattserverdisconnected listener tests
\* "commMode === Bluetooth && isConnected" with the isConnected of the render
\* that called connect(), which is false (the connect button is only there
\* while !isConnected): the listener does nothing
BleGattLost ==
    /\ gattConnected
    /\ gattConnected' = FALSE
    /\ notifying' = 0
    /\ UNCHANGED <<logs, logFix, sessVars, wsVars, serVars, bluetoothDeviceRef,
                   bluetoothCharacteristicRef, procs, sendVars, obsVars>>

\* disconnect(), Bluetooth branch
BleDisconnect ==
    /\ commMode = "bluetooth"
    /\ CanLog
    /\ IF bluetoothDeviceRef # 0
       THEN gattConnected' = FALSE /\ notifying' = 0
       ELSE UNCHANGED <<gattConnected, notifying>>
    /\ bluetoothDeviceRef' = 0
    /\ bluetoothCharacteristicRef' = 0
    /\ isConnected' = FALSE
    /\ isPaused' = FALSE
    /\ logs' = Note(logs, "info", "ble_disconnected")
    /\ UNCHANGED <<logFix, commMode, isReconnecting, wsVars, serVars, procs, sendVars, obsVars>>

(* ---------------------------- SendQueue -------------------------------- *)
\* what the user sends: a text input and a hex input
SendInputs == {[data |-> <<1>>, mode |-> "text"], [data |-> <<2>>, mode |-> "hex"]}

\* the Sender and the QuickSendList enable their send buttons on
\* isConnected && !isPaused; the QuickSendList also while isReconnecting
SendEnabled == (isConnected /\ ~isPaused) \/ isReconnecting

\* one write as the transport sees it; "to" is the socket, 0 for port and GATT
Write(by, n, data, frame, to, busy) ==
    [by |-> by, n |-> n, data |-> data, frame |-> frame, to |-> to, busy |-> busy]

\* a dequeue from the wrong end (pop for shift)
ShiftLast(q) == [item |-> q[Len(q)], rest |-> SubSeq(q, 1, Len(q) - 1)]

\* sendQueueRef.current.shift(): the item taken and the queue left
Shift(q) == [item |-> Head(q), rest |-> Tail(q)]

\* the guard without the re-entrancy flag
DrainGuardNoFlag(sending, q) == q = <<>>

\* processSendQueue: "if (isSendingRef.current || queue.length === 0) return"
DrainGuard(sending, q) == sending \/ q = <<>>

\* a dispatch that sends every item as a binary frame
FrameAlwaysBinary(item) == "binary"

\* "if (item.mode === DisplayMode.Hex) send(item.data) else send(item.text)":
\* the frame type of the send
Frame(item) == IF item.mode = "hex" THEN "binary" ELSE "text"

\* a processSendQueue with "if" for "while": one item is taken, and the
\* function returns after it unless it is suspended on the item's write
DrainOneItem(c, mode, p) ==
    IF c.q = <<>>
    THEN c
    ELSE LET item == Shift(c.q).item
             c1 == [c EXCEPT !.q = Shift(c.q).rest]
             written == [c1 EXCEPT !.wire = Append(@, Write("drain", item.n, item.data, "bytes", 0, item.busy))]
         IN CASE mode = "bluetooth" ->
                   IF bluetoothCharacteristicRef # 0
                   THEN [written EXCEPT !.wait = <<item>>]
                   ELSE c1
              [] mode = "websocket" ->
                   IF wsRef # 0 /\ ws[wsRef] = "open" THEN written ELSE c1
              [] OTHER ->
                   IF p # 0 /\ c1.writable /\ c1.lock = "free"
                   THEN [written EXCEPT !.lock = "drain", !.wait = <<item>>]
                   ELSE c1

RECURSIVE DrainLoop(_, _, _)
\* processSendQueue: the while loop, run from its head up to the next await
\* or to its exit; c is [q, wire, logs, lock, writable, wait], mode and p are
\* the commMode and port of the render whose processSendQueue is running;
\* writable says whether port.writable is a stream, wait holds the item whose
\* write the loop is suspended on
DrainLoop(c, mode, p) ==
    IF c.q = <<>>
    THEN c
    ELSE LET item == Shift(c.q).item
             c1 == [c EXCEPT !.q = Shift(c.q).rest]
         IN CASE mode = "bluetooth" ->
                   IF bluetoothCharacteristicRef # 0
                   THEN \* await bluetoothCharacteristicRef.current.writeValue(item.data)
                        [c1 EXCEPT !.wire = Append(@, Write("drain", item.n, item.data, "bytes", 0, item.busy)),
                                   !.wait = <<item>>]
                   ELSE DrainLoop(c1, mode, p)
              [] mode = "websocket" ->
                   IF wsRef # 0 /\ ws[wsRef] = "open"
                   THEN \* wsRef.current.send(item.data) or send(item.text)
                        DrainLoop([c1 EXCEPT !.wire = Append(@,
                                      Write("drain", item.n, item.data, Frame(item),
                                            wsRef, item.busy))],
                                  mode, p)
                   ELSE DrainLoop(c1, mode, p)
              [] OTHER ->
                   IF p # 0 /\ c1.writable
                   THEN IF c1.lock # "free"
                        THEN \* getWriter() throws on a locked stream; catch
                             DrainLoop([c1 EXCEPT !.logs = Note(@, "error", "send_failed")], mode, p)
                        ELSE \* await writer.write(item.data)
                             [c1 EXCEPT !.lock = "drain",
                                        !.wire = Append(@, Write("drain", item.n, item.data, "bytes", 0, item.busy)),
                                        !.wait = <<item>>]
                   ELSE DrainLoop(c1, mode, p)

\* a processSendQueue loop suspended on the write of item
Drain(mode, p, item) == [mode |-> mode, port |-> p, item |-> item]

\* a pause guard that lets every request through
PauseGuardOff(paused) == FALSE

\* "if (isPaused) { addLog('error', ...); return; }" at the head of sendData
PauseGuard(paused) == paused

\* a sendData that appends no tx entry
TxNotLogged(prev, data) == prev

\* addLog('tx', data, textToSend), which sendData calls before it pushes the
\* item and calls processSendQueue()
TxLogged(prev, data) == addLog(prev, "tx", data, Text("data", data))

\* sendData(input, mode) with the processSendQueue() call it ends with
sendData(data, mode) ==
    IF PauseGuard(isPaused)
    THEN /\ logs' = Note(logs, "error", "send_failed_paused")
         /\ UNCHANGED <<sendQueueRef, isSendingRef, drains, writerLock, wire, enqLog>>
    ELSE LET item == [data |-> data, text |-> Text("data", data), mode |-> mode,
                      n |-> Len(enqLog) + 1, busy |-> isSendingRef]
             c0 == [q |-> Append(sendQueueRef, item), wire |-> wire,
                    logs |-> TxLogged(logs, data),
                    lock |-> writerLock, writable |-> portOpen, wait |-> <<>>]
             returns == DrainGuard(isSendingRef, c0.q)
             c == IF returns THEN c0 ELSE DrainLoop(c0, commMode, port)
         IN /\ logs' = c.logs
            /\ sendQueueRef' = c.q
            /\ wire' = c.wire
            /\ writerLock' = c.lock
            /\ enqLog' = Append(enqLog, data)
            /\ isSendingRef' = IF returns THEN isSendingRef ELSE c.wait # <<>>
            /\ drains' = IF c.wait # <<>>
                         THEN drains (+) SetToBag({Drain(commMode, port, c.wait[1])})
                         ELSE drains

\* a send button, a quick-send button or the send timer calls sendData
UserSend ==
    /\ SendEnabled
    /\ Len(enqLog) + fileRuns < MaxSends
    /\ \E in \in SendInputs : sendData(in.data, in.mode)
    /\ RoomFor(logs')
    /\ UNCHANGED <<logFix, sessVars, wsVars, serVars, bleVars, procs, xfer, fileRuns, obsVars>>

\* how an awaited write settles: it resolves, it rejects and the transport
\* goes on, or it rejects because the serial device is gone
WriteResults == {"ok", "failed", "lost"}

\* a rejected write that is taken for a resolved one
SettledAsOk(res) == TRUE

\* "await writer.write(item.data)" resolved: the catch block is not entered
SettledOk(res) == res = "ok"

\* a loop whose reset of the guard is skipped when its last write rejected
GuardKeptOnFailure(res) == res # "ok"

\* "isSendingRef.current = false" after the while loop: the guard a loop
\* leaves when it exits after a write that settled as res
GuardAtExit(res) == FALSE

\* processSendQueue after "await writer.write(...)" or "await ...writeValue(...)".
\* A write that rejects errors the port's writable stream: the writer whose
\* releaseLock() is skipped holds the lock of a stream that port.writable no
\* longer returns; the getter hands out a new stream, or null once the
\* device is lost.
DrainWriteSettled(res) ==
    \E d \in BagToSet(drains) :
        /\ res = "lost" => d.mode = "serial" /\ portOpen
        /\ portOpen' = IF res = "lost" THEN FALSE ELSE portOpen
        /\ readLoop' = IF res = "lost" THEN "none" ELSE readLoop
        /\ LET c0 == [q |-> sendQueueRef, wire |-> wire,
                      \* catch: addLog('error', ...)
                      logs |-> IF SettledOk(res) THEN logs ELSE Note(logs, "error", "send_failed"),
                      lock |-> IF d.mode = "serial" THEN "free" ELSE writerLock,
                      writable |-> portOpen',
                      wait |-> <<>>]
               c == DrainLoop(c0, d.mode, d.port)
           IN /\ logs' = c.logs
              /\ sendQueueRef' = c.q
              /\ wire' = c.wire
              /\ writerLock' = c.lock
              /\ isSendingRef' = IF c.wait = <<>> THEN GuardAtExit(res) ELSE isSendingRef
              /\ drains' = IF c.wait # <<>>
                           THEN (drains (-) SetToBag({d})) (+) SetToBag({Drain(d.mode, d.port, c.wait[1])})
                           ELSE drains (-) SetToBag({d})
        /\ RoomFor(logs')
        /\ UNCHANGED <<logFix, sessVars, wsVars, port, readerRef, keepReadingRef, bleVars,
                       procs, xfer, enqLog, fileRuns, obsVars>>

(* --------------------------- file transfer ----------------------------- *)
\* Math.round((sent / total) * 100)
Progress(sent, total) == (200 * sent + total) \div (2 * total)

Min(a, b) == IF a < b THEN a ELSE b

\* the Bluetooth branch caps a chunk at 20 bytes
BleChunkCap == 20

\* a slice whose end index is taken as inclusive
ChunkInclusiveEnd(x) ==
    SubSeq(x.data, x.sent + 1, Min(x.sent + x.chunkSize + 1, Len(x.data)))

\* the end index of TypedArray.prototype.slice(start, end) on len bytes: a
\* negative end counts from the end of the array
SliceEnd(len, end) ==
    IF end < 0
    THEN (IF len + end < 0 THEN 0 ELSE len + end)
    ELSE Min(end, len)

\* data.slice(sent, sent + chunkSize)
Chunk(x) ==
    LET end == SliceEnd(Len(x.data), x.sent + x.chunkSize)
    IN IF end <= x.sent THEN <<>> ELSE SubSeq(x.data, x.sent + 1, end)

\* handleFileSend has returned; the Sender keeps the last progress it was given
Finished(x) == [IdleXfer EXCEPT !.progress = x.progress]

\* the serial branch's "finally { writer.releaseLock() }"
Released(x, lock) == IF x.via = "serial" THEN "free" ELSE lock

\* handleFileSend: "catch (err) { addLog('error', ...) }" and what follows it
XferCaught(x, c) ==
    [x |-> Finished(x), logs |-> Note(c.logs, "error", "file_interrupted"),
     wire |-> c.wire, lock |-> Released(x, c.lock)]

RECURSIVE XferLoop(_, _)
\* handleFileSend: the "while (sent < total)" loop, run from its head up to
\* the next await or to the return; c is [logs, wire, lock]
XferLoop(x, c) ==
    IF x.sent >= Len(x.data)
    THEN [x |-> Finished(x),
          logs |-> IF x.paused THEN c.logs ELSE Note(c.logs, "info", "file_done"),
          wire |-> c.wire, lock |-> Released(x, c.lock)]
    ELSE IF x.paused
    THEN [x |-> Finished(x), logs |-> Note(c.logs, "error", "file_interrupted_paused"),
          wire |-> c.wire, lock |-> Released(x, c.lock)]
    ELSE CASE x.via = "websocket" ->
                IF wsRef = 0 \/ ws[wsRef] = "connecting"
                THEN \* wsRef.current is null, or send() throws InvalidStateError
                     XferCaught(x, c)
                ELSE LET sent == x.sent + Len(Chunk(x))
                         x1 == [x EXCEPT !.sent = sent,
                                         !.progress = Progress(sent, Len(x.data))]
                         \* send() on a closing or closed socket discards the data
                         c1 == IF ws[wsRef] = "open"
                               THEN [c EXCEPT !.wire = Append(@,
                                        Write("file", x.run, Chunk(x), "binary", wsRef, FALSE))]
                               ELSE c
                     IN IF x.throttleMs > 0 /\ sent < Len(x.data)
                        THEN [x |-> [x1 EXCEPT !.pc = "delay"], logs |-> c1.logs,
                              wire |-> c1.wire, lock |-> c1.lock]
                        ELSE XferLoop(x1, c1)
           [] x.via = "bluetooth" ->
                IF bluetoothCharacteristicRef = 0
                THEN XferCaught(x, c)
                ELSE [x |-> [x EXCEPT !.pc = "write"], logs |-> c.logs,
                      wire |-> Append(c.wire, Write("file", x.run, Chunk(x), "bytes", 0, FALSE)),
                      lock |-> c.lock]
           [] OTHER ->
                [x |-> [x EXCEPT !.pc = "write"], logs |-> c.logs,
                 wire |-> Append(c.wire, Write("file", x.run, Chunk(x), "bytes", 0, FALSE)),
                 lock |-> c.lock]

\* the state a step of handleFileSend leaves
XferResult(r) ==
    /\ xfer' = r.x
    /\ logs' = r.logs
    /\ wire' = r.wire
    /\ writerLock' = r.lock
    /\ RoomFor(logs')

\* the file the user picks
FileInputs == {<<1, 2>>}

\* Sender.handleFileSendClick / handleFileChange and handleFileSend up to its
\* first await; the Sender is given isConnected && !isPaused
FileSendStart(data, throttleBytes, throttleMs) ==
    /\ isConnected /\ ~isPaused
    /\ xfer.pc = "idle"
    /\ Len(enqLog) + fileRuns < MaxSends
    /\ fileRuns' = fileRuns + 1
    /\ LET x == [pc |-> "read", via |-> commMode, data |-> data, sent |-> 0,
                 chunkSize |-> IF commMode = "bluetooth"
                               THEN Min(throttleBytes, BleChunkCap) ELSE throttleBytes,
                 throttleMs |-> throttleMs, paused |-> isPaused, progress |-> 0,
                 run |-> fileRuns + 1]
           same == [x |-> [IdleXfer EXCEPT !.progress = 0], logs |-> logs,
                    wire |-> wire, lock |-> writerLock]
       IN IF isPaused
          THEN XferResult([same EXCEPT !.logs = Note(logs, "error", "file_failed_paused")])
          ELSE CASE commMode = "bluetooth" ->
                      IF bluetoothCharacteristicRef = 0
                      THEN XferResult([same EXCEPT !.logs = Note(logs, "error", "file_failed_ble")])
                      ELSE XferResult([same EXCEPT !.x = x])
                 [] commMode = "websocket" ->
                      IF wsRef = 0 \/ ws[wsRef] # "open"
                      THEN XferResult([same EXCEPT !.logs = Note(logs, "error", "file_failed_ws")])
                      ELSE XferResult([same EXCEPT !.x = x])
                 [] OTHER ->
                      IF port = 0 \/ ~portOpen
                      THEN XferResult(same)
                      ELSE IF writerLock # "free"
                      THEN \* getWriter() throws outside the try: the call rejects
                           \* and the Sender never resets isSendingFile
                           XferResult([same EXCEPT !.x = [x EXCEPT !.pc = "stuck"]])
                      ELSE XferResult([same EXCEPT !.x = x, !.lock = "file"])
    /\ UNCHANGED <<logFix, sessVars, wsVars, serVars, bleVars, procs, sendQueueRef,
                   isSendingRef, drains, enqLog, obsVars>>

\* handleFileSend after "await file.arrayBuffer()"
FileReadSettled ==
    /\ xfer.pc = "read"
    /\ LET tx == addLog(logs, "tx", xfer.data, Text("file", xfer.data))
           c == [logs |-> Note(tx, "info", "file_start"), wire |-> wire, lock |-> writerLock]
       IN XferResult(XferLoop(xfer, c))
    /\ UNCHANGED <<logFix, sessVars, wsVars, serVars, bleVars, procs, sendQueueRef,
                   isSendingRef, drains, enqLog, fileRuns, obsVars>>

\* handleFileSend after "await writer.write(chunk)" or "await ...writeValue(chunk)"
FileWriteSettled(ok) ==
    /\ xfer.pc = "write"
    /\ LET c == [logs |-> logs, wire |-> wire, lock |-> writerLock]
           sent == xfer.sent + Len(Chunk(xfer))
           x1 == [xfer EXCEPT !.sent = sent, !.progress = Progress(sent, Len(xfer.data))]
       IN IF ~ok
          THEN XferResult(XferCaught(xfer, c))
          ELSE IF xfer.throttleMs > 0 /\ sent < Len(xfer.data)
          THEN XferResult([x |-> [x1 EXCEPT !.pc = "delay"], logs |-> logs,
                           wire |-> wire, lock |-> writerLock])
          ELSE XferResult(XferLoop(x1, c))
    /\ UNCHANGED <<logFix, sessVars, wsVars, serVars, bleVars, procs, sendQueueRef,
                   isSendingRef, drains, enqLog, fileRuns, obsVars>>

\* handleFileSend after "await new Promise(resolve => setTimeout(resolve, throttleMs))"
FileDelayDone ==
    /\ xfer.pc = "delay"
    /\ XferResult(XferLoop(xfer, [logs |-> logs, wire |-> wire, lock |-> writerLock]))
    /\ UNCHANGED <<logFix, sessVars, wsVars, serVars, bleVars, procs, sendQueueRef,
                   isSendingRef, drains, enqLog, fileRuns, obsVars>>

(* ------------------------------ the UI --------------------------------- *)
\* the connect button of the Sidebar, shown when !isConnected && !isReconnecting:
\* connect(), one disjunct per branch
ConnectButton == ~isConnected /\ ~isReconnecting

UserConnectWs ==
    /\ ConnectButton
    /\ \E url \in Urls : WsUserConnect(url)
    /\ userStopped' = FALSE
    /\ UNCHANGED <<timerSrc, fireCount, cancelled, closedWith, strayAttempt>>

UserConnectSerial ==
    /\ ConnectButton
    /\ \E pick \in {"cancel", "port"} : SerialUserConnect(pick)
    /\ userStopped' = FALSE
    /\ UNCHANGED <<timerSrc, fireCount, cancelled, closedWith, strayAttempt>>

UserConnectBle ==
    /\ ConnectButton
    /\ \E pick \in {"cancel", "device"} : BleUserConnect(pick)
    /\ userStopped' = FALSE
    /\ UNCHANGED <<timerSrc, fireCount, cancelled, closedWith, strayAttempt>>

\* the disconnect button of the Sidebar, shown when isConnected || isReconnecting:
\* disconnect(), which branches on commMode
UserDisconnect ==
    /\ isConnected \/ isReconnecting
    /\ \/ WsDisconnect
       \/ SerialDisconnect
       \/ BleDisconnect

\* a togglePause without its "if (!isConnected) return"
TogglePauseAnyTime ==
    /\ CanLog
    /\ isPaused' = ~isPaused
    /\ logs' = Note(logs, "info", IF ~isPaused THEN "paused" ELSE "resumed")
    /\ UNCHANGED <<logFix, commMode, isConnected, isReconnecting, wsVars, serVars,
                   bleVars, procs, sendVars, obsVars>>

\* togglePause (its button is disabled while !isConnected)
TogglePause ==
    /\ isConnected
    /\ CanLog
    /\ isPaused' = ~isPaused
    /\ logs' = Note(logs, "info", IF ~isPaused THEN "paused" ELSE "resumed")
    /\ UNCHANGED <<logFix, commMode, isConnected, isReconnecting, wsVars, serVars,
                   bleVars, procs, sendVars, obsVars>>

\* the mode selector of the Sidebar, disabled while isConnected
SetCommMode(m) ==
    /\ ~isConnected
    /\ m # commMode
    /\ commMode' = m
    /\ UNCHANGED <<logs, logFix, isConnected, isPaused, isReconnecting, wsVars,
                   serVars, bleVars, procs, sendVars, obsVars>>

\* the clear button: setLogs([])
ClearLogs ==
    /\ logs # <<>>
    /\ logs' = <<>>
    /\ UNCHANGED <<logFix, sessVars, wsVars, serVars, bleVars, procs, sendVars, obsVars>>

InitLogEmpty ==
    /\ logs = <<>>
    /\ maxBufferSizeRef = 100 * 1024
    /\ lastAppend = [done |-> FALSE, prev |-> <<>>, entry |-> NewLog(0, "info", <<>>, Text("note", <<>>))]
    /\ appends = 0
    /\ rxDropped = -1
    /\ exported = NothingExported

\* the component after its first render
Init ==
    /\ InitLogEmpty
    /\ InitSession /\ InitWs /\ InitSerial /\ InitBle /\ InitProcs /\ InitSend /\ InitObs

\* what the user does that is common to every transport
NextUi ==
    \/ UserDisconnect
    \/ TogglePause
    \/ \E m \in CommModes : SetCommMode(m)
    \/ ClearLogs

\* the WebSocket transport and the reconnect supervisor
NextWs ==
    \/ UserConnectWs
    \/ \E h \in 1..MaxSockets : TimerFire(h)
    \/ \E s \in 1..MaxSockets : WsOpen(s)
    \/ \E s \in 1..MaxSockets : WsMessage(s)
    \/ \E s \in 1..MaxSockets : \E failed \in BOOLEAN : WsClose(s, failed)

\* the serial transport
NextSerial ==
    \/ UserConnectSerial
    \/ \E ok \in BOOLEAN : SerialOpenSettled(ok)
    \/ SerialData
    \/ \E p \in {0, 1} : SerialCancelSettled(p)
    \/ \E p \in {0, 1} : SerialCloseSettled(p)

\* the BLE transport
NextBle ==
    \/ UserConnectBle
    \/ \E i \in 1..4 : \E ok \in BOOLEAN : BleStepSettled(i, ok)
    \/ BleNotify
    \/ BleGattLost

\* Spec: the sessions whose transports are WebSockets (the user may select
\* any mode, but opens no serial port and no BLE device)
Next == NextUi \/ NextWs

Spec == Init /\ [][Next]_vars

\* SpecSerial, SpecBle: the sessions whose transports are serial ports, BLE devices
SpecSerial == Init /\ [][NextUi \/ NextSerial]_vars

SpecBle == Init /\ [][NextUi \/ NextBle]_vars

\* a session connected in mode m, its log cleared: what connect() leaves
\* once the port is open, the socket's onopen has run, or the GATT chain is done
Connected(m) ==
    /\ commMode = m
    /\ isConnected = TRUE
    /\ isPaused = FALSE
    /\ isReconnecting = FALSE
    /\ IF m = "websocket"
       THEN /\ wsRef = 1
            /\ ws = [s \in 1..MaxSockets |-> IF s = 1 THEN "open" ELSE "none"]
            /\ shouldReconnectRef = TRUE
            /\ reconnectTimerRef = 0
            /\ timers = {}
       ELSE InitWs
    /\ IF m = "serial"
       THEN /\ port = 1
            /\ portOpen = TRUE
            /\ readerRef = 1
            /\ keepReadingRef = TRUE
            /\ readLoop = "read"
       ELSE InitSerial
    /\ IF m = "bluetooth"
       THEN /\ bluetoothDeviceRef = 1
            /\ bluetoothCharacteristicRef = 1
            /\ gattConnected = TRUE
            /\ notifying = 1
       ELSE InitBle

InitSendSession ==
    /\ InitLogEmpty
    /\ \E m \in CommModes : Connected(m)
    /\ InitProcs /\ InitSend /\ InitObs

ThrottleBytes == {1, 2}

ThrottleMs == {0, 10}

\* the send path of a connected session
NextSend ==
    \/ UserSend
    \/ \E res \in WriteResults : DrainWriteSettled(res)
    \/ \E data \in FileInputs : \E b \in ThrottleBytes : \E ms \in ThrottleMs :
           FileSendStart(data, b, ms)
    \/ FileReadSettled
    \/ \E ok \in BOOLEAN : FileWriteSettled(ok)
    \/ FileDelayDone
    \/ TogglePause
    \/ ClearLogs

SpecSend == InitSendSession /\ [][NextSend]_vars

(***************************************************************************)
(* SpecDrain: the send queue of a connected session in which every awaited *)
(* write settles, as resolved or as rejected.                              *)
(***************************************************************************)
NextDrain ==
    \/ UserSend
    \/ \E res \in WriteResults : DrainWriteSettled(res)
    \/ TogglePause
    \/ ClearLogs

\* each awaited write settles
FairDrain == WF_vars(\E res \in WriteResults : DrainWriteSettled(res))

SpecDrain == InitSendSession /\ [][NextDrain]_vars /\ FairDrain

(***************************************************************************)
(* SpecFile: file transfers of every length and chunk size up to the       *)
(* bounds, over an open serial port or an open WebSocket.                  *)
(***************************************************************************)
\* the files the user picks: 1 to MaxFileLen bytes
FilesUpTo == {[i \in 1..n |-> i] : n \in 1..MaxFileLen}

InitFileSession ==
    /\ InitLogEmpty
    /\ \E m \in {"serial", "websocket"} : Connected(m)
    /\ InitProcs /\ InitSend /\ InitObs

NextFile ==
    \/ \E data \in FilesUpTo : \E b \in 1..MaxChunk : \E ms \in ThrottleMs :
           FileSendStart(data, b, ms)
    \/ FileReadSettled
    \/ \E ok \in BOOLEAN : FileWriteSettled(ok)
    \/ FileDelayDone
    \/ ClearLogs

SpecFile == InitFileSession /\ [][NextFile]_vars

(***************************************************************************)
(* SpecHeld: the send path of a session that is connected over its serial  *)
(* port while isReconnecting is true. The state is the one reached when a  *)
(* WebSocket created before the port was opened closes while port.open()   *)
(* is pending: onclose arms the reconnect timer and sets isReconnecting,    *)
(* then the port opens. Until the timer fires the quick-send buttons stay   *)
(* enabled whatever isPaused says.                                         *)
(***************************************************************************)
InitHeldSession ==
    /\ InitLogEmpty
    /\ commMode \in {"serial", "websocket"}
    /\ isConnected = TRUE
    /\ isPaused = FALSE
    /\ isReconnecting = TRUE
    /\ wsRef = 0
    /\ ws = [s \in 1..MaxSockets |-> IF s = 1 THEN "closed" ELSE "none"]
    /\ shouldReconnectRef = TRUE
    /\ reconnectTimerRef = 1
    /\ timers = {1}
    /\ port = 1
    /\ portOpen = TRUE
    /\ readerRef = 1
    /\ keepReadingRef = TRUE
    /\ readLoop = "read"
    /\ InitBle /\ InitProcs /\ InitSend
    /\ timerSrc = <<1>>
    /\ fireCount = <<0>>
    /\ cancelled = {}
    /\ closedWith = [s \in 1..MaxSockets |-> IF s = 1 THEN "retry" ELSE "none"]
    /\ userStopped = FALSE
    /\ strayAttempt = FALSE

SpecHeld == InitHeldSession /\ [][NextSend]_vars

(***************************************************************************)
(* SpecEcho: sends over a transport that loops back what is written to it, *)
(* with a log the user does not clear and writes that do not fail.         *)
(***************************************************************************)
\* the entries of type t and payload data among the first k entries of log l
CountIn(l, k, t, data) ==
    Cardinality({i \in 1..k : l[i].type = t /\ l[i].data = data})

\* the writes of the drain loop with payload data
WritesOf(data) ==
    Cardinality({i \in 1..Len(wire) : wire[i].by = "drain" /\ wire[i].data = data})

\* a send button calls sendData
SendOnLoopback ==
    /\ SendEnabled
    /\ Len(enqLog) < MaxSends
    /\ \E in \in SendInputs : sendData(in.data, in.mode)
    /\ UNCHANGED <<logFix, sessVars, wsVars, serVars, bleVars, procs, xfer, fileRuns, obsVars>>

\* the transport delivers a chunk that echoes a write not echoed yet; the
\* inbound handler logs it unless isPausedRef says paused
Echo ==
    \E i \in 1..Len(wire) :
        /\ wire[i].by = "drain"
        /\ CountIn(logs, Len(logs), "rx", wire[i].data) < WritesOf(wire[i].data)
        /\ logs' = IF isPaused THEN logs ELSE Rx(logs, wire[i].data)
        /\ UNCHANGED <<logFix, sessVars, wsVars, serVars, bleVars, procs, sendVars, obsVars>>

NextEcho ==
    \/ SendOnLoopback
    \/ DrainWriteSettled("ok")
    \/ Echo

SpecEcho == InitSendSession /\ [][NextEcho]_vars

(***************************************************************************)
(* SpecExport: exportLogs and copyLogs on every log of up to MaxExportLog  *)
(* entries.                                                                *)
(***************************************************************************)
\* the (type, payload) pairs of the entries of an exported log
ExportEntries ==
    {<<"rx", <<1, 2>>>>, <<"tx", <<3>>>>, <<"info", <<>>>>, <<"error", <<>>>>}

\* the log that addLog leaves when called with the pairs of kinds in turn
LogOf(kinds) ==
    [i \in 1..Len(kinds) |->
        NewLog(i, kinds[i][1], kinds[i][2],
               IF kinds[i][2] = <<>> THEN Text("note", <<>>) ELSE Text("data", kinds[i][2]))]

InitExport ==
    /\ \E n \in 0..MaxExportLog : \E kinds \in [1..n -> ExportEntries] : logs = LogOf(kinds)
    /\ maxBufferSizeRef = 100 * 1024
    /\ lastAppend = [done |-> FALSE, prev |-> <<>>, entry |-> NewLog(0, "info", <<>>, Text("note", <<>>))]
    /\ appends = 0
    /\ rxDropped = -1
    /\ exported = NothingExported
    /\ InitSession /\ InitWs /\ InitSerial /\ InitBle /\ InitProcs /\ InitSend /\ InitObs

\* exportLogs(format): "if (logs.length === 0) return", then the Blob is
\* built from content; format only chooses the extension of the file name
exportLogs(format) ==
    /\ exported' = IF logs = <<>>
                   THEN exported
                   ELSE [exported EXCEPT ![format] = [done |-> TRUE, content |-> Content(logs)]]
    /\ UNCHANGED <<logs, maxBufferSizeRef, lastAppend, appends, rxDropped, sessVars, wsVars,
                   serVars, bleVars, procs, sendVars, obsVars>>

\* copyLogs(): clipboard.writeText(content), or the textarea fallback with
\* the same content
copyLogs ==
    /\ exported' = IF logs = <<>>
                   THEN exported
                   ELSE [exported EXCEPT !["copy"] = [done |-> TRUE, content |-> Content(logs)]]
    /\ UNCHANGED <<logs, maxBufferSizeRef, lastAppend, appends, rxDropped, sessVars, wsVars,
                   serVars, bleVars, procs, sendVars, obsVars>>

NextExport ==
    \/ \E format \in {"txt", "bin"} : exportLogs(format)
    \/ copyLogs

SpecExport == InitExport /\ [][NextExport]_vars

(***************************************************************************)
(* SpecQuick: quick-sends of a WebSocket session that is Reconnecting: its *)
(* socket has closed, onclose has armed the reconnect timer, and the       *)
(* QuickSendList keeps its send buttons enabled.                           *)
(***************************************************************************)
InitReconnecting ==
    /\ InitLogEmpty
    /\ commMode = "websocket"
    /\ isConnected = FALSE
    /\ isPaused = FALSE
    /\ isReconnecting = TRUE
    /\ wsRef = 0
    /\ ws = [s \in 1..MaxSockets |-> IF s = 1 THEN "closed" ELSE "none"]
    /\ shouldReconnectRef = TRUE
    /\ reconnectTimerRef = 1
    /\ timers = {1}
    /\ InitSerial /\ InitBle /\ InitProcs /\ InitSend
    /\ timerSrc = <<1>>
    /\ fireCount = <<0>>
    /\ cancelled = {}
    /\ closedWith = [s \in 1..MaxSockets |-> IF s = 1 THEN "retry" ELSE "none"]
    /\ userStopped = FALSE
    /\ strayAttempt = FALSE

NextQuick ==
    \/ UserSend
    \/ \E h \in 1..MaxSockets : TimerFire(h)
    \/ \E s \in 1..MaxSockets : WsOpen(s)
    \/ \E s \in 1..MaxSockets : \E failed \in BOOLEAN : WsClose(s, failed)
    \/ ClearLogs

SpecQuick == InitReconnecting /\ [][NextQuick]_vars

(***************************************************************************)
(* SpecThrottle: file transfers over an open serial port with every value  *)
(* the Sender's "bytes per batch" number input can hold around zero: the   *)
(* input has no min attribute and an emptied input reads as 0.             *)
(***************************************************************************)
\* <input type="number" value={throttleBytes}
\*        onChange={e => setThrottleBytes(Number(e.target.value))} />
ThrottleBytesInputs == (0 - 1)..MaxChunk

InitThrottle ==
    /\ InitLogEmpty
    /\ Connected("serial")
    /\ InitProcs /\ InitSend /\ InitObs

\* the writes on the wire are counted up to MaxWrites
WireRoom == Len(wire) < MaxWrites

NextThrottle ==
    \/ \E data \in FilesUpTo : \E b \in ThrottleBytesInputs : \E ms \in ThrottleMs :
           FileSendStart(data, b, ms)
    \/ WireRoom /\ FileReadSettled
    \/ \E ok \in BOOLEAN : WireRoom /\ FileWriteSettled(ok)
    \/ WireRoom /\ FileDelayDone
    \/ ClearLogs

SpecThrottle == InitThrottle /\ [][NextThrottle]_vars

(***************************************************************************)
(* SpecBleFile: file transfers over a connected BLE characteristic, with   *)
(* files and "bytes per batch" values on both sides of the 20-byte cap.    *)
(***************************************************************************)
\* files of 1, 20, 21 and 41 bytes
BleFiles == {[i \in 1..n |-> i] : n \in {1, BleChunkCap, BleChunkCap + 1, 2 * BleChunkCap + 1}}

\* values of the Sender's number input, which has no min attribute
BleThrottleBytesInputs ==
    {0 - 1, BleChunkCap - 1, BleChunkCap, BleChunkCap + 1, 3 * BleChunkCap}

InitBleFile ==
    /\ InitLogEmpty
    /\ Connected("bluetooth")
    /\ InitProcs /\ InitSend /\ InitObs

NextBleFile ==
    \/ \E data \in BleFiles : \E b \in BleThrottleBytesInputs : \E ms \in ThrottleMs :
           FileSendStart(data, b, ms)
    \/ WireRoom /\ FileReadSettled
    \/ \E ok \in BOOLEAN : WireRoom /\ FileWriteSettled(ok)
    \/ WireRoom /\ FileDelayDone
    \/ ClearLogs

SpecBleFile == InitBleFile /\ [][NextBleFile]_vars

(***************************************************************************)
(* SpecWsFile: file transfers over a WebSocket whose server may drop the   *)
(* connection; the close handler then reconnects after its timer.          *)
(***************************************************************************)
InitWsFile ==
    /\ InitLogEmpty
    /\ Connected("websocket")
    /\ InitProcs /\ InitSend /\ InitObs

NextWsFile ==
    \/ \E data \in FilesUpTo : \E b \in ThrottleBytes : \E ms \in ThrottleMs :
           FileSendStart(data, b, ms)
    \/ FileReadSettled
    \/ FileDelayDone
    \/ \E s \in 1..MaxSockets : \E failed \in BOOLEAN : WsClose(s, failed)
    \/ \E h \in 1..MaxSockets : TimerFire(h)
    \/ \E s \in 1..MaxSockets : WsOpen(s)
    \/ ClearLogs

SpecWsFile == InitWsFile /\ [][NextWsFile]_vars

(***************************************************************************)
(* SpecOpen: the opens of a session in each of the three modes, one        *)
(* connect() at a time: the user presses the connect button when no        *)
(* earlier connect() is suspended. A socket that closes before it opened   *)
(* has failed, and the browser raises its error event before the close     *)
(* event.                                                                  *)
(***************************************************************************)
InitOpen ==
    /\ InitLogEmpty
    /\ commMode \in CommModes
    /\ isConnected = FALSE
    /\ isPaused = FALSE
    /\ isReconnecting = FALSE
    /\ InitWs /\ InitSerial /\ InitBle /\ InitProcs /\ InitSend /\ InitObs

\* no connect() or disconnect() is suspended at an await
NoneSuspended == procs = EmptyBag

NextOpen ==
    \/ NoneSuspended /\ UserConnectWs
    \/ \E h \in 1..MaxSockets : TimerFire(h)
    \/ \E s \in 1..MaxSockets : WsOpen(s)
    \/ \E s \in 1..MaxSockets : \E failed \in BOOLEAN :
          /\ ws[s] = "connecting" => failed
          /\ WsClose(s, failed)
    \/ NoneSuspended /\ UserConnectSerial
    \/ \E ok \in BOOLEAN : SerialOpenSettled(ok)
    \/ NoneSuspended /\ UserConnectBle
    \/ \E i \in 1..4 : \E ok \in BOOLEAN : BleStepSettled(i, ok)
    \/ UserDisconnect
    \/ \E p \in {0, 1} : SerialCancelSettled(p)
    \/ \E p \in {0, 1} : SerialCloseSettled(p)
    \/ ClearLogs

SpecOpen == InitOpen /\ [][NextOpen]_vars

(***************************************************************************)
(* SpecRetry: one WebSocket session with its reconnect supervisor, run     *)
(* without end. The user connects when no socket of an earlier connect is  *)
(* left, so one chain of attempts runs at a time. Closed sockets and the   *)
(* handles of timers that are gone are forgotten, which keeps the run      *)
(* finite-state. Transport events, timers, the collection of sockets and   *)
(* the clearing of the log are fair.                                       *)
(***************************************************************************)
InitRetry ==
    /\ InitLogEmpty
    /\ commMode = "websocket"
    /\ isConnected = FALSE
    /\ isPaused = FALSE
    /\ isReconnecting = FALSE
    /\ InitWs /\ InitSerial /\ InitBle /\ InitProcs /\ InitSend /\ InitObs

\* no socket of an earlier connect() can still raise an event, no timer is armed
Quiet ==
    /\ \A s \in 1..MaxSockets : ws[s] \in {"none", "closed"}
    /\ timers = {}

\* closed WebSocket objects, which nothing refers to, are collected
ForgetSockets ==
    /\ \E s \in 1..MaxSockets : ws[s] = "closed"
    /\ ws' = [s \in 1..MaxSockets |-> IF ws[s] = "closed" THEN "none" ELSE ws[s]]
    /\ closedWith' = [s \in 1..MaxSockets |-> IF ws[s] = "closed" THEN "none" ELSE closedWith[s]]
    /\ UNCHANGED <<logs, logFix, sessVars, wsRef, shouldReconnectRef, reconnectTimerRef, timers,
                   serVars, bleVars, procs, sendVars, timerSrc, fireCount, cancelled,
                   userStopped, strayAttempt>>

\* no timer is armed and the record of timers that fired or were cleared is
\* not empty
CanForgetTimers ==
    /\ timers = {}
    /\ timerSrc # <<>> \/ reconnectTimerRef # 0 \/ cancelled # {}

\* handles of timers that are gone (clearTimeout on them does nothing) are
\* dropped
ForgetTimers ==
    /\ CanForgetTimers
    /\ timerSrc' = <<>>
    /\ fireCount' = <<>>
    /\ cancelled' = {}
    /\ reconnectTimerRef' = 0
    /\ UNCHANGED <<logs, logFix, sessVars, wsRef, shouldReconnectRef, ws, timers, serVars,
                   bleVars, procs, sendVars, closedWith, userStopped, strayAttempt>>

\* the events of socket s that the browser delivers once the handshake or
\* the closing handshake ends
WsSettles(s) ==
    /\ ws[s] \in {"connecting", "closing"}
    /\ \/ WsOpen(s)
       \/ \E failed \in BOOLEAN : WsClose(s, failed)

NextRetry ==
    \/ ForgetTimers
    \/ ~CanForgetTimers /\ ForgetSockets
    \/ ~CanForgetTimers /\ Quiet /\ UserConnectWs
    \/ \E h \in 1..MaxSockets : ~CanForgetTimers /\ TimerFire(h)
    \/ \E s \in 1..MaxSockets : ~CanForgetTimers /\ WsOpen(s)
    \/ \E s \in 1..MaxSockets : \E failed \in BOOLEAN : ~CanForgetTimers /\ WsClose(s, failed)
    \/ ~CanForgetTimers /\ UserDisconnect
    \/ ~CanForgetTimers /\ TogglePause
    \/ ~CanForgetTimers /\ ClearLogs

\* every event the browser owes is delivered, every armed timer fires,
\* closed sockets are collected and the log never stays full
FairRetry ==
    /\ \A s \in 1..MaxSockets : WF_vars(~CanForgetTimers /\ WsSettles(s))
    /\ \A h \in 1..MaxSockets : WF_vars(~CanForgetTimers /\ TimerFire(h))
    /\ WF_vars(ForgetTimers)
    /\ WF_vars(~CanForgetTimers /\ ForgetSockets)
    /\ WF_vars(~CanForgetTimers /\ ClearLogs)

SpecRetry == InitRetry /\ [][NextRetry]_vars /\ FairRetry

(***************************************************************************)
(* SpecRx: inbound data of a connected session that the user pauses,       *)
(* resumes and disconnects, with the dropped chunks counted.               *)
(***************************************************************************)
InitRxSession ==
    /\ logs = <<>>
    /\ maxBufferSizeRef = 100 * 1024
    /\ lastAppend = [done |-> FALSE, prev |-> <<>>, entry |-> NewLog(0, "info", <<>>, Text("note", <<>>))]
    /\ appends = 0
    /\ rxDropped = 0
    /\ exported = NothingExported
    /\ \E m \in CommModes : Connected(m)
    /\ InitProcs /\ InitSend /\ InitObs

NextRx ==
    \/ \E s \in 1..MaxSockets : WsMessage(s)
    \/ SerialData
    \/ BleNotify
    \/ TogglePause
    \/ ClearLogs
    \/ UserDisconnect
    \/ \E s \in 1..MaxSockets : \E failed \in BOOLEAN : WsClose(s, failed)
    \/ \E p \in {0, 1} : SerialCancelSettled(p)
    \/ \E p \in {0, 1} : SerialCloseSettled(p)

SpecRx == InitRxSession /\ [][NextRx]_vars

(***************************************************************************)
(* Claims about the transports and the reconnect supervisor (under Spec)   *)
(***************************************************************************)
\* the transports that are live: WebSockets connecting or open, the open
\* serial port, the connected GATT server
LiveTransports ==
    Cardinality({s \in 1..MaxSockets : ws[s] \in {"connecting", "open"}})
        + (IF portOpen THEN 1 ELSE 0)
        + (IF gattConnected THEN 1 ELSE 0)

\* C1: in every reachable state at most one transport is live.
C1_OneLiveTransport == LiveTransports <= 1

\* C2: after a user-initiated disconnect() in WebSocket mode the reconnect
\* supervisor makes no connect attempt until the user next invokes connect.
C2_NoAttemptAfterDisconnect == ~strayAttempt

\* the timers armed by the close event of socket s
TimersOf(s) == {h \in 1..Len(timerSrc) : timerSrc[h] = s}

\* the sockets whose close event arrived while shouldReconnect was true and
\* was not caused by a disconnect()
UnexpectedlyClosed == {s \in 1..MaxSockets : closedWith[s] = "retry"}

\* C3 as stated: every close event that arrives while shouldReconnect is true
\* and was not caused by a user disconnect schedules exactly one timer, and
\* that timer produces exactly one connect() call: it is still pending or it
\* has called connect() once.
C3_Original ==
    \A s \in UnexpectedlyClosed :
        /\ Cardinality(TimersOf(s)) = 1
        /\ \A h \in TimersOf(s) :
              \/ h \in timers /\ fireCount[h] = 0
              \/ h \notin timers /\ fireCount[h] = 1

\* C3 (amended): every such close event schedules exactly one timer; the
\* timer calls connect() exactly once, unless a disconnect() clears it
\* before it fires, and then it calls connect() never.
C3_OneAttemptPerClose ==
    \A s \in UnexpectedlyClosed :
        /\ Cardinality(TimersOf(s)) = 1
        /\ \A h \in TimersOf(s) :
              \/ h \in timers /\ fireCount[h] = 0 /\ h \notin cancelled
              \/ h \notin timers /\ fireCount[h] = 1 /\ h \notin cancelled
              \/ h \notin timers /\ fireCount[h] = 0 /\ h \in cancelled

\* a timer armed by an unexpected close has fired, another one was cleared
C3_Witness ==
    /\ \E h \in 1..Len(timerSrc) :
          timerSrc[h] \in UnexpectedlyClosed /\ fireCount[h] = 1
    /\ \E h \in 1..Len(timerSrc) :
          timerSrc[h] \in UnexpectedlyClosed /\ h \in cancelled

(***************************************************************************)
(* Claims about the LogBuffer (checked under SpecLog)                      *)
(***************************************************************************)
RECURSIVE RxTxBytes(_, _, _)
\* sum of byteCount over the rx and tx entries of s[lo..hi]
RxTxBytes(s, lo, hi) ==
    IF lo > hi THEN 0
    ELSE IF lo = hi
         THEN IF s[lo].type \in {"rx", "tx"} THEN s[lo].byteCount ELSE 0
         ELSE LET mid == (lo + hi) \div 2
              IN RxTxBytes(s, lo, mid) + RxTxBytes(s, mid + 1, hi)

\* the previous log followed by the new entry
Updated == Append(lastAppend.prev, lastAppend.entry)

\* the log is Updated without its k oldest entries
IsUpdatedWithout(k) ==
    /\ Len(logs) = Len(Updated) - k
    /\ \A i \in 1..Len(logs) : logs[i] = Updated[k + i]

\* the append left the count at most 1000 and the byte total above the ceiling
ByteCase ==
    /\ lastAppend.done
    /\ Len(Updated) <= 1000
    /\ RxTxBytes(Updated, 1, Len(Updated)) > maxBufferSizeRef

\* C7: once an append has completed, the byte counts of the rx/tx entries
\* held in the log sum to at most the configured maximum buffer size.
C7_ByteCeiling ==
    lastAppend.done => RxTxBytes(logs, 1, Len(logs)) <= maxBufferSizeRef

\* C8: the log never holds more than 1000 entries.
C8_CountCeiling == Len(logs) <= 1000

C8_Witness == lastAppend.done /\ Len(lastAppend.prev) = 1000 /\ Len(logs) = 500

\* C9: when an append makes the count exceed 1000, the log afterwards is
\* exactly the last 500 entries of (previous log followed by the new
\* entry), in their original order.
C9_KeepsLast500 ==
    (lastAppend.done /\ Len(Updated) > 1000) => IsUpdatedWithout(Len(Updated) - 500)

C9_Witness ==
    /\ lastAppend.done
    /\ Len(Updated) > 1000
    /\ logs[500] = lastAppend.entry
    /\ logs[1] = lastAppend.prev[Len(lastAppend.prev) - 498]

\* where the claim lets the eviction stop, after k removals:
\* byte total at most the ceiling, or exactly 10 entries left
StopsExactly10(k) ==
    \/ RxTxBytes(Updated, k + 1, Len(Updated)) <= maxBufferSizeRef
    \/ Len(Updated) - k = 10

\* the same with "at most 10 entries left"
StopsAtMost10(k) ==
    \/ RxTxBytes(Updated, k + 1, Len(Updated)) <= maxBufferSizeRef
    \/ Len(Updated) - k <= 10

C10_WitnessFloor ==
    /\ ByteCase
    /\ Len(logs) < Len(Updated)
    /\ Len(logs) = 10
    /\ RxTxBytes(logs, 1, Len(logs)) > maxBufferSizeRef


(***************************************************************************)
(* Claims about the send queue and the file transfer (under SpecSend)      *)
(***************************************************************************)
\* the writes on the transport that processSendQueue issued, in order
RECURSIVE DrainWrites(_)
DrainWrites(w) ==
    IF w = <<>> THEN <<>>
    ELSE IF Head(w).by = "drain"
         THEN <<Head(w)>> \o DrainWrites(Tail(w))
         ELSE DrainWrites(Tail(w))

\* C4: the writes processSendQueue issues are in the order of the sendData
\* calls that enqueued them: each write carries exactly the payload of one
\* enqueued item, no item is written twice, and a later write never belongs
\* to an earlier sendData call, also for items enqueued while the drain was
\* suspended on a write.
C4_QueueIsFifo ==
    LET dw == DrainWrites(wire)
    IN /\ \A i \in 1..Len(dw) :
              /\ dw[i].n \in 1..Len(enqLog)
              /\ dw[i].data = enqLog[dw[i].n]
       /\ \A i, j \in 1..Len(dw) : i < j => dw[i].n < dw[j].n

\* two items enqueued while a drain was suspended have both been written
C4_Witness ==
    LET dw == DrainWrites(wire)
    IN \E i, j \in 1..Len(dw) : i < j /\ dw[i].busy /\ dw[j].busy

\* a sendData call made while a drain is suspended only appends to the queue
EnqueueWhileDraining ==
    (drains # EmptyBag /\ enqLog' # enqLog)
        => /\ wire' = wire
           /\ drains' = drains
           /\ Len(sendQueueRef') = Len(sendQueueRef) + 1
           /\ SubSeq(sendQueueRef', 1, Len(sendQueueRef)) = sendQueueRef

\* C5: at most one processSendQueue loop is active at any time, and a
\* processSendQueue call made while a loop is suspended on a write returns
\* without taking an item off the queue and without writing.
C5_OneDrain ==
    /\ [](BagCardinality(drains) <= 1)
    /\ [][EnqueueWhileDraining]_vars

\* an item was enqueued while a drain was suspended, and is still queued
C5_Witness ==
    /\ BagCardinality(drains) = 1
    /\ sendQueueRef # <<>>
    /\ sendQueueRef[Len(sendQueueRef)].busy

\* the writes that have been issued and have not settled
WritesInFlight == BagCardinality(drains) + (IF xfer.pc = "write" THEN 1 ELSE 0)

\* a write of the queue lies between two chunks of one file
Interleaved ==
    \E i, j, k \in 1..Len(wire) :
        /\ i < j /\ j < k
        /\ wire[i].by = "file" /\ wire[k].by = "file" /\ wire[i].n = wire[k].n
        /\ wire[j].by = "drain"

\* C6: at most one write is outstanding on the transport: a file transfer
\* and a drain of the send queue never have writes in flight together and
\* never interleave their writes. (handleFileSend writes to the transport
\* itself, so "every write goes through the drain loop" fails with any
\* transfer; the formula states the part that is about concurrency.)
C6_SingleWriter ==
    /\ WritesInFlight <= 1
    /\ ~Interleaved


(***************************************************************************)
(* Claims about pausing the send path (under SpecSend)                     *)
(***************************************************************************)
\* the writes on the transport that handleFileSend issued, in order
RECURSIVE FileWrites(_)
FileWrites(w) ==
    IF w = <<>> THEN <<>>
    ELSE IF Head(w).by = "file"
         THEN <<Head(w)>> \o FileWrites(Tail(w))
         ELSE FileWrites(Tail(w))

\* a file transfer is suspended in a write or in the inter-chunk delay
XferSuspended == xfer.pc \in {"write", "delay"}

\* the step ends the transfer with the completion entry
LogsFileDone ==
    /\ logs' # logs
    /\ logs' # <<>>
    /\ logs'[Len(logs')].text.msg = "file_done"

\* a step of a transfer taken while the session is paused issues no chunk and
\* appends no completion entry
PausedTransferHalts ==
    (isPaused /\ XferSuspended /\ xfer' # xfer)
        => /\ FileWrites(wire') = FileWrites(wire)
           /\ ~LogsFileDone
           /\ xfer'.pc = "idle"

\* C11: once the session is paused while a file transfer is suspended in a
\* write or in the inter-chunk delay, the transfer issues no further chunk,
\* appends no completion entry and ends; bytes sent never exceed the file size.
C11_PauseHaltsTransfer ==
    /\ [][PausedTransferHalts]_vars
    /\ [](xfer.sent <= Len(xfer.data))

\* a step taken while the session is paused takes no item off the queue and
\* issues no write of the queue
PausedDrainWaits ==
    isPaused => /\ DrainWrites(wire') = DrainWrites(wire)
                /\ Len(sendQueueRef') >= Len(sendQueueRef)

\* C15: processSendQueue takes an item off the queue and writes it only
\* while the session is not paused: items queued when a pause takes effect
\* stay in the queue and are not written during the pause.
C15_DrainHonoursPause == [][PausedDrainWaits]_vars


(***************************************************************************)
(* Claims about the chunking of a file transfer (under SpecFile)           *)
(***************************************************************************)
\* the writes of transfer number run, in order
RECURSIVE RunWrites(_, _)
RunWrites(w, run) ==
    IF w = <<>> THEN <<>>
    ELSE IF Head(w).by = "file" /\ Head(w).n = run
         THEN <<Head(w)>> \o RunWrites(Tail(w), run)
         ELSE RunWrites(Tail(w), run)

\* the payloads of a sequence of writes, concatenated
RECURSIVE Payload(_)
Payload(w) == IF w = <<>> THEN <<>> ELSE Head(w).data \o Payload(Tail(w))

\* ceil(t / c)
CeilDiv(t, c) == (t + c - 1) \div c

\* the step that ends a transfer with the completion entry leaves ceil(T/c)
\* writes that concatenate to the file, and a progress of 100
CompletesInChunks ==
    (xfer.pc # "idle" /\ xfer'.pc = "idle" /\ LogsFileDone)
        => LET w == RunWrites(wire', xfer.run)
           IN /\ Len(w) = CeilDiv(Len(xfer.data), xfer.chunkSize)
              /\ Payload(w) = xfer.data
              /\ xfer'.progress = 100

\* C12: a transfer of T > 0 bytes with chunk size c >= 1 over a serial port
\* or a WebSocket that is neither paused nor hit by a write failure issues
\* exactly ceil(T/c) writes whose payloads concatenate to the file, and the
\* last progress reported is 100.
C12_ChunkCount == [][CompletesInChunks]_vars

\* a transfer has ended after a full chunk followed by a shorter last chunk
C12_Witness ==
    /\ xfer.pc = "idle"
    /\ xfer.progress = 100
    /\ \E i \in 1..Len(wire) :
          /\ i < Len(wire)
          /\ wire[i].by = "file" /\ wire[i + 1].by = "file"
          /\ wire[i].n = wire[i + 1].n
          /\ Len(wire[i].data) > Len(wire[i + 1].data)
          /\ Len(wire[i].data) > 1


(***************************************************************************)
(* Claims about inbound data and the Paused flag (under SpecRx)            *)
(***************************************************************************)
\* the number of rx entries of a log
RxCount(l) == Cardinality({i \in 1..Len(l) : l[i].type = "rx"})

PausedDropsInbound ==
    /\ isPaused => RxCount(logs') <= RxCount(logs)
    /\ rxDropped' # rxDropped =>
          /\ isPaused
          /\ logs' = logs
          /\ UNCHANGED <<sessVars, wsVars, serVars, bleVars, procs>>

\* C13: while the session is Paused, a chunk that a transport delivers (serial
\* read, WebSocket message, BLE notification) appends no rx entry and leaves
\* the session and the transport as they were; no step taken while Paused,
\* the resume included, appends an rx entry, so a dropped chunk is not
\* delivered later either.
C13_PausedInboundDropped == [][PausedDropsInbound]_vars

\* a chunk was dropped and the session is still paused and connected
C13_Witness == isPaused /\ isConnected /\ rxDropped >= 1 /\ logs = <<>>

(***************************************************************************)
(* Claims about the mode selector (under Spec)                             *)
(***************************************************************************)
ModeSwitchWhileDisconnected ==
    commMode' # commMode =>
        /\ ~isConnected
        /\ LiveTransports = 0
        /\ \A s \in 1..MaxSockets : ws[s] # "connecting"
        /\ timers = {}
        /\ ~isReconnecting

\* C18: commMode changes only while the session is Disconnected: no step
\* changes it while a transport is live, a connect attempt is in flight or
\* a reconnect timer is pending.
C18_ModeSwitchOnlyDisconnected == [][ModeSwitchWhileDisconnected]_vars

(***************************************************************************)
(* Claims about disconnect (under SpecSerial)                              *)
(***************************************************************************)
\* the entries that the three branches of disconnect() end with
ClosedMsgs == {"serial_closed", "ws_closed_by_user", "ble_disconnected"}

\* the last entry of log l is the closed entry of a disconnect()
EndsClosed(l) == l # <<>> /\ l[Len(l)].text.msg \in ClosedMsgs

DisconnectedStaysQuiet ==
    (~isConnected /\ ~isReconnecting /\ logs' # logs) => ~EndsClosed(logs')

\* C17: disconnect is idempotent: once the session is Disconnected, no step
\* of a disconnect() appends a closed entry, so that two invocations in a
\* row leave exactly one closed entry.
C17_DisconnectIdempotent == [][DisconnectedStaysQuiet]_vars

(***************************************************************************)
(* Claims about a transport that ends by itself (under SpecBle)            *)
(***************************************************************************)
LinkLossEndsSession ==
    (isConnected /\ gattConnected /\ ~gattConnected') =>
        /\ isConnected' = FALSE
        /\ isPaused' = FALSE
        /\ bluetoothDeviceRef' = 0
        /\ bluetoothCharacteristicRef' = 0

\* C19: when the GATT link of a connected session ends (gattserverdisconnected),
\* the session goes to Disconnected: isConnected false, isPaused false, the
\* device and characteristic handles dropped.
C19_LinkLossDisconnects == [][LinkLossEndsSession]_vars

(***************************************************************************)
(* Claims about a write of the drain loop that fails (under SpecSend)      *)
(***************************************************************************)
\* the step ends the await of drain d
Settles(d) == CopiesIn(d, drains') < CopiesIn(d, drains)

\* the awaited write of the step was rejected: the serial device went away,
\* or the catch block logged
WriteFailed == (portOpen /\ ~portOpen') \/ Len(logs') > Len(logs)

\* the transport of drain d takes a write after the step
TakesWrite(d) ==
    IF d.mode = "bluetooth"
    THEN bluetoothCharacteristicRef' # 0
    ELSE d.port # 0 /\ portOpen'

FailedWriteIsSkipped ==
    \A d \in BagToSet(drains) :
        (Settles(d) /\ WriteFailed) =>
            \* exactly one entry is appended, an error entry
            /\ Len(logs') = Len(logs) + 1
            /\ logs'[Len(logs')].type = "error"
            \* the failed item is not back in the queue and is not written again
            /\ \A i \in 1..Len(sendQueueRef') : sendQueueRef'[i].n # d.item.n
            /\ \A i \in (Len(wire) + 1)..Len(wire') : wire'[i].n # d.item.n
            \* the loop goes on with the item at the head of the queue
            /\ IF sendQueueRef = <<>>
               THEN wire' = wire /\ ~isSendingRef'
               ELSE IF TakesWrite(d)
                    THEN /\ sendQueueRef' = Tail(sendQueueRef)
                         /\ wire' = Append(wire, Write("drain", Head(sendQueueRef).n,
                                                       Head(sendQueueRef).data, "bytes", 0,
                                                       Head(sendQueueRef).busy))
                    ELSE \* "if (port && port.writable)" fails for each of them
                         /\ sendQueueRef' = <<>>
                         /\ wire' = wire

TxCount(l) == Cardinality({i \in 1..Len(l) : l[i].type = "tx"})

\* the step appended the entry of a rejected request
LogsRejection ==
    /\ Len(logs') > Len(logs)
    /\ logs'[Len(logs')].text.msg \in {"send_failed_paused", "file_failed_paused"}

PausedRequestRejected ==
    /\ isPaused =>
          \* no request is accepted: nothing is enqueued, no transfer starts,
          \* no tx entry is appended
          /\ enqLog' = enqLog
          /\ fileRuns' = fileRuns
          /\ Len(sendQueueRef') <= Len(sendQueueRef)
          \* (a transfer started before the pause logs its own tx entry)
          /\ xfer.pc = "idle" => TxCount(logs') <= TxCount(logs)
    /\ LogsRejection =>
          /\ isPaused
          /\ Len(logs') = Len(logs) + 1
          /\ logs'[Len(logs')].type = "error"
          /\ UNCHANGED <<sendQueueRef, wire, drains, isSendingRef, xfer>>

\* C14: a sendData or handleFileSend request made while the session is Paused
\* is rejected: the step appends exactly one error entry and no tx entry,
\* leaves the send queue unchanged and issues no write.
C14_PausedRequestRejected == [][PausedRequestRejected]_vars

\* a request was rejected and the session is still paused
C14_Witness ==
    /\ isPaused
    /\ Len(logs) = 1 /\ logs[1].text.msg = "send_failed_paused"

(***************************************************************************)
(* Claims about the tx entry and the echo of a sent item (under SpecEcho)  *)
(***************************************************************************)
\* at every position of the log, the rx entries with some payload are no
\* more than the tx entries with that payload before them
EchoAfterTx ==
    \A k \in 1..Len(logs) :
        logs[k].type = "rx" =>
            CountIn(logs, k, "rx", logs[k].data) <= CountIn(logs, k, "tx", logs[k].data)

\* the step of an accepted sendData appends the tx entry of the item first,
\* and a step writes only items whose sendData was accepted
TxBeforeWrite ==
    /\ Len(enqLog') > Len(enqLog) =>
          /\ Len(logs') > Len(logs)
          /\ logs'[Len(logs) + 1].type = "tx"
          /\ logs'[Len(logs) + 1].data = enqLog'[Len(enqLog')]
    /\ \A i \in (Len(wire) + 1)..Len(wire') :
          wire'[i].by = "drain" => wire'[i].n <= Len(enqLog')

\* C16: for every accepted sendData the tx entry of the item is appended
\* before the item's write is issued, so in the log the tx entry of an item
\* precedes every rx entry that echoes it.
C16_TxBeforeEcho == [](EchoAfterTx) /\ [][TxBeforeWrite]_vars

\* the log holds the tx entry of an item and, after it, its echo
C16_Witness ==
    \E j, k \in 1..Len(logs) :
        /\ j < k
        /\ logs[j].type = "tx" /\ logs[k].type = "rx"
        /\ logs[j].data = logs[k].data

(***************************************************************************)
(* Claims about failures that leave a handler (under SpecSend)             *)
(***************************************************************************)
\* C21: no failure inside connect, sendData or handleFileSend escapes as a
\* rejected promise: no call of handleFileSend ends by rejecting, which
\* leaves the Sender waiting with isSendingFile set.
C21_NoEscapedFailure == xfer.pc # "stuck"

(***************************************************************************)
(* Claims about exportLogs and copyLogs (under SpecExport)                 *)
(***************************************************************************)
RECURSIVE RxTxText(_)
\* the texts of the rx and tx entries of log l, one after the other in the
\* order of the log
RxTxText(l) ==
    IF l = <<>> THEN <<>>
    ELSE LET last == l[Len(l)]
         IN RxTxText(SubSeq(l, 1, Len(l) - 1))
                \o (IF last.type \in {"rx", "tx"} THEN Chars(last.text) ELSE <<>>)

\* C22: the text exportLogs and copyLogs produce is the concatenation, in
\* log order and with nothing added, of the texts of exactly the rx and tx
\* entries of the log; the txt export, the bin export and the copy agree.
C22_ExportIsRxTxText ==
    \A k \in ExportKinds : exported[k].done => exported[k].content = RxTxText(logs)

\* all three outputs were produced from a log of rx, tx and other entries
C22_Witness ==
    /\ \A k \in ExportKinds : exported[k].done
    /\ \E i, j, m \in 1..Len(logs) :
          /\ i < j /\ j < m
          /\ logs[i].type = "rx" /\ logs[j].type = "info" /\ logs[m].type = "tx"

(***************************************************************************)
(* Claims about a connect attempt and the reconnect supervisor's end       *)
(* (under SpecRetry)                                                       *)
(***************************************************************************)
\* a connect attempt is in flight
Connecting == \E s \in 1..MaxSockets : ws[s] = "connecting"

\* no session: not connected, no attempt in flight, no reconnect pending
Disconnected == ~isConnected /\ ~isReconnecting /\ ~Connecting /\ timers = {}

\* C23 as stated: a session that entered Connecting eventually becomes
\* Connected or returns to Disconnected.
C23_Original == Connecting ~> (isConnected \/ Disconnected)

\* C23: every connect attempt resolves: a session that entered Connecting
\* eventually is Connected or has no attempt in flight, the latter being
\* Disconnected or, when the close armed the reconnect timer, Reconnecting.
C23_AttemptResolves == Connecting ~> (isConnected \/ ~Connecting)

\* an attempt has ended in Reconnecting
C23_Witness == isReconnecting /\ ~Connecting /\ timers # {} /\ ~isConnected

\* a socket's close event is handled in this step
SocketCloses == \E s \in 1..MaxSockets : ws[s] # "closed" /\ ws'[s] = "closed"

\* a close handled while shouldReconnect is true arms the reconnect timer
CloseArmsTimer ==
    SocketCloses /\ shouldReconnectRef =>
        /\ isReconnecting'
        /\ \E h \in timers' : h \notin timers

\* once an attempt is in flight, attempts recur for ever unless the session
\* gets connected or the user disconnects
AttemptsRecur == [](Connecting => []<>(Connecting \/ isConnected \/ ~shouldReconnectRef))

\* C30: reconnection is unlimited: while shouldReconnect is true every
\* attempt that fails or whose socket closes arms the timer of a further
\* attempt, and under fairness the attempts recur forever against a server
\* that never opens, until the user disconnects.
C30_ReconnectUnlimited == [][CloseArmsTimer]_vars /\ AttemptsRecur

\* two attempts have failed, each followed by a further one
C30_Witness ==
    /\ shouldReconnectRef
    /\ isReconnecting
    /\ \E a, b, c \in 1..MaxSockets :
          /\ a # b
          /\ closedWith[a] = "retry"
          /\ closedWith[b] = "retry"
          /\ ws[c] = "connecting"

(***************************************************************************)
(* Claims about the entries an open appends (under SpecOpen)               *)
(***************************************************************************)
\* the entries the step appended
Appended ==
    IF Len(logs') > Len(logs) /\ SubSeq(logs', 1, Len(logs)) = logs
    THEN SubSeq(logs', Len(logs) + 1, Len(logs'))
    ELSE <<>>

AppendedOf(t) == Cardinality({i \in 1..Len(Appended) : Appended[i].type = t})

\* the connect() calls suspended at an await
ConnectPending(bag) ==
    CopiesIn(Proc("connect", "open", 0), bag)
    + CopiesIn(Proc("connect", BleSteps[1], 0), bag)
    + CopiesIn(Proc("connect", BleSteps[2], 0), bag)
    + CopiesIn(Proc("connect", BleSteps[3], 0), bag)
    + CopiesIn(Proc("connect", BleSteps[4], 0), bag)

\* connect() ran with the connect button available and returned in the same
\* step without reaching an open: the chooser was dismissed
ChooserStep ==
    /\ commMode \in {"serial", "bluetooth"}
    /\ ConnectButton
    /\ ConnectPending(procs) = 0
    /\ ConnectPending(procs') = 0
    /\ isConnected' = isConnected

\* C24: when the user dismisses the serial-port or Bluetooth device chooser,
\* connect() appends no error entry and the session stays Disconnected.
C24_DismissedChooserQuiet ==
    [][ChooserStep => AppendedOf("error") = 0 /\ ~isConnected' /\ ~isReconnecting']_vars

\* the suspended connect() calls, by the await each one stands at
ConnectProcs(bag) ==
    [pc \in {"open"} \cup {BleSteps[i] : i \in 1..4} |-> CopiesIn(Proc("connect", pc, 0), bag)]

\* a connect() of the serial or the Bluetooth branch returned in this step
OpenEnded == ConnectPending(procs') < ConnectPending(procs)

\* an open succeeded in this step: the serial or Bluetooth connect() set
\* isConnected, or a socket's onopen ran
Opened ==
    \/ OpenEnded /\ ~isConnected /\ isConnected'
    \/ \E s \in 1..MaxSockets : ws[s] = "connecting" /\ ws'[s] = "open"

\* an open failed in this step: the serial or Bluetooth connect() returned
\* from its catch, or a socket closed before it opened
OpenFailed ==
    \/ OpenEnded /\ ~isConnected'
    \/ \E s \in 1..MaxSockets : ws[s] = "connecting" /\ ws'[s] = "closed"

\* the Bluetooth connect() went from one await to the next
BleAdvanced ==
    /\ commMode = "bluetooth"
    /\ ConnectProcs(procs') # ConnectProcs(procs)
    /\ ~OpenEnded

NextIteration ==
    /\ xfer.pc = "write"
    /\ xfer'.pc \in {"write", "delay"}
    /\ xfer'.run = xfer.run

\* C26: in every iteration of the transfer loop sent increases by exactly
\* min(chunkSize, remaining), which is at least 1, for every chunk size the
\* Sender can pass.
C26_LoopAdvances ==
    [][NextIteration =>
         /\ xfer'.sent = xfer.sent + Min(xfer.chunkSize, Len(xfer.data) - xfer.sent)
         /\ xfer'.sent >= xfer.sent + 1]_vars

(***************************************************************************)
(* Claims about the send queue between handlers (under SpecSend, SpecHeld) *)
(***************************************************************************)
\* C27: whenever isSendingRef is false the send queue is empty: the drain
\* that was suspended when an item was enqueued takes the item before it
\* exits.
C27_IdleQueueEmpty == ~isSendingRef => sendQueueRef = <<>>

\* no drain is running, and an item that was enqueued while one was
\* suspended has been written
C27_Witness ==
    /\ ~isSendingRef
    /\ sendQueueRef = <<>>
    /\ \E i \in 1..Len(wire) : wire[i].by = "drain" /\ wire[i].busy

\* the items the step took from the send queue
Dequeued == Len(sendQueueRef) + (Len(enqLog') - Len(enqLog)) - Len(sendQueueRef')

\* C28: every item processSendQueue removes from the queue is passed to a
\* transport write or answered with an error entry, also when the transport
\* is not open at dequeue time.
C28_DequeuedIsWritten ==
    [][Dequeued <= (Len(wire') - Len(wire)) + AppendedOf("error")]_vars

(***************************************************************************)
(* Claim about inbound data after a disconnect (under Spec)                *)
(***************************************************************************)
\* C29: after disconnect() has completed, no rx entry is appended until the
\* user next connects: the handlers of the transports the session had
\* append nothing.
C29_QuietAfterDisconnect == [][userStopped => RxCount(logs') <= RxCount(logs)]_vars

(***************************************************************************)
(* Claims about the two eviction checks of addLog (under SpecLog)          *)
(***************************************************************************)
\* C31: when an append triggers the count eviction, the byte-ceiling check
\* is still applied to the trimmed log within the same append: the log it
\* leaves is within the ceiling or has been cut down to the 10-entry floor.
C31_ByteCheckAfterCountCheck ==
    (lastAppend.done /\ Len(Updated) > 1000) =>
        \/ RxTxBytes(logs, 1, Len(logs)) <= maxBufferSizeRef
        \/ Len(logs) <= 10

\* C32: after every addLog the log is a contiguous suffix of (previous log
\* followed by the new entry): entries leave from the oldest end only, the
\* survivors keep their order and their fields, and the new entry is last.
C32_SuffixOfUpdated ==
    lastAppend.done =>
        /\ Len(logs) >= 1
        /\ Len(logs) <= Len(Updated)
        /\ IsUpdatedWithout(Len(Updated) - Len(logs))
        /\ logs[Len(logs)] = lastAppend.entry

\* an append whose byte eviction removed entries and kept several
C32_Witness ==
    /\ lastAppend.done
    /\ Len(Updated) <= 1000
    /\ Len(logs) < Len(Updated)
    /\ Len(logs) > 1
    /\ logs[Len(logs)] = lastAppend.entry
    /\ logs[1] = Updated[Len(Updated) - Len(logs) + 1]

(***************************************************************************)
(* Claim about the chunks of a BLE file transfer (under SpecBleFile)       *)
(***************************************************************************)
\* every chunk a file transfer has written has at most 20 bytes
ChunksWithinCap ==
    \A i \in 1..Len(wire) : wire[i].by = "file" => Len(wire[i].data) <= BleChunkCap

\* C33: on a BLE transport every chunk written by a file transfer has at
\* most 20 bytes, for every configured chunk size, and a transfer of T bytes
\* with configured size c that completes has issued ceil(T / min(c, 20))
\* writes.
C33_BleChunkCap == []ChunksWithinCap /\ [][CompletesInChunks]_vars

(***************************************************************************)
(* Claim about the frame type of queued items (under SpecEcho)             *)
(***************************************************************************)
\* the mode sendData was called with for the item enqueued n-th
ModeAtEnqueue(n) == (CHOOSE in \in SendInputs : in.data = enqLog[n]).mode

\* C34: on a WebSocket each queued item is sent as a text frame when the
\* mode recorded at enqueue time is Text and as a binary frame when it is
\* Hex; on serial and BLE every item is written as raw bytes.
C34_FrameByEnqueueMode ==
    \A i \in 1..Len(wire) :
        wire[i].by = "drain" =>
            /\ wire[i].n \in 1..Len(enqLog)
            /\ wire[i].data = enqLog[wire[i].n]
            /\ IF commMode = "websocket"
               THEN /\ wire[i].to # 0
                    /\ ModeAtEnqueue(wire[i].n) = "text" => wire[i].frame = "text"
                    /\ ModeAtEnqueue(wire[i].n) = "hex" => wire[i].frame = "binary"
               ELSE wire[i].frame = "bytes"

\* a socket has carried a text frame and a binary frame
C34_Witness ==
    /\ commMode = "websocket"
    /\ \E i, j \in 1..Len(wire) :
          /\ wire[i].by = "drain" /\ wire[i].frame = "text"
          /\ wire[j].by = "drain" /\ wire[j].frame = "binary"

(***************************************************************************)
(* Claims about superseded sockets and reconnect timers (under Spec)       *)
(***************************************************************************)
\* socket s delivers its close event in this step while another socket,
\* the one held in wsRef, is connecting or open
SupersededCloses(s) ==
    /\ ws[s] # "closed" /\ ws'[s] = "closed"
    /\ wsRef # 0 /\ wsRef # s
    /\ ws[wsRef] \in {"connecting", "open"}

SupersededCloseIgnored ==
    \A s \in 1..MaxSockets :
        SupersededCloses(s) =>
            /\ wsRef' = wsRef
            /\ isConnected' = isConnected
            /\ timers' \subseteq timers

\* C35: a close event delivered by a superseded WebSocket (one that is no
\* longer the socket held in wsRef) never clears wsRef, never marks the
\* session not-connected and never schedules a reconnect while a newer
\* socket is connecting or open.
C35_SupersededCloseIgnored == [][SupersededCloseIgnored]_vars


\* at most one timer is pending and reconnectTimerRef holds its handle
OneTimerHeld ==
    /\ Cardinality(timers) <= 1
    /\ timers \subseteq {reconnectTimerRef}

\* the step of disconnect() in WebSocket mode leaves no timer pending
DisconnectCancelsAll ==
    (commMode = "websocket" /\ shouldReconnectRef /\ ~shouldReconnectRef') => timers' = {}

\* C36: at most one reconnect timer is pending at any time and, whenever
\* one is pending, reconnectTimerRef holds its handle, so that a disconnect
\* cancels every pending reconnect timer.
C36_OneTimerPending == []OneTimerHeld /\ [][DisconnectCancelsAll]_vars

(***************************************************************************)
(* Claim about the socket a file transfer writes to (under SpecWsFile)     *)
(***************************************************************************)
\* C37: all chunks of one file transfer are written to the transport
\* instance that was live when the transfer started: a WebSocket transfer
\* suspended in its inter-chunk delay never resumes writing on a socket
\* created by a later reconnect or connect.
C37_OneSocketPerTransfer ==
    \A i, j \in 1..Len(wire) :
        (wire[i].by = "file" /\ wire[j].by = "file" /\ wire[i].n = wire[j].n) =>
            wire[i].to = wire[j].to

(***************************************************************************)
(* Claim about the paused flag (under Spec)                                *)
(***************************************************************************)
PausedOnlyConnected == isPaused => isConnected

\* a step never sets the paused flag of a session that is not connected,
\* and a step that makes the session not-connected clears the flag
PauseFollowsConnection ==
    /\ (~isPaused /\ isPaused') => (isConnected /\ isConnected')
    /\ (isConnected /\ ~isConnected') => ~isPaused'

\* C38: in every reachable state isPaused implies isConnected: togglePause
\* is a no-op when the session is not connected, and every transition that
\* makes the session not-connected also clears the paused flag.
C38_PausedImpliesConnected == []PausedOnlyConnected /\ [][PauseFollowsConnection]_vars

\* a paused WebSocket session, which a close or a disconnect may end
C38_Witness == isPaused /\ isConnected /\ wsRef # 0 /\ ws[wsRef] = "open"

(***************************************************************************)
(* Claim about the re-entrancy guard of processSendQueue (under SpecDrain) *)
(***************************************************************************)
\* a drain loop is executing: it is suspended on the write of an item
LoopRunning == drains # EmptyBag

\* some item waits in the queue or for its write to settle, or the guard
\* is set
Undrained == sendQueueRef # <<>> \/ LoopRunning \/ isSendingRef

GuardOnlyWhileLooping ==
    /\ isSendingRef => LoopRunning
    /\ BagCardinality(drains) <= 1

\* C39: isSendingRef is true only while a drain loop of processSendQueue is
\* executing: every exit of the loop, including after failed writes, resets
\* the guard to false, so when each awaited write settles, a later sendData
\* always has its item drained and the queue is never locked out for good.
C39_GuardReleased ==
    /\ []GuardOnlyWhileLooping
    /\ Undrained ~> ~Undrained

\* a loop has exited after a rejected write and a later item was written
C39_Witness ==
    /\ ~isSendingRef
    /\ \E i \in 1..Len(logs) : logs[i].type = "error"
    /\ \E i \in 1..Len(wire) : wire[i].by = "drain" /\ wire[i].n >= 2
====
